---- MODULE Spec2Model ----
(***************************************************************************)
(* SureSafe demo: the n8n reverse proxy (Box trigger dispatcher), the Box   *)
(* AI gateway's webhook receiver and the member/admin portal backend        *)
(* (claim submission, admin status update, workflow task completion).       *)
(* Each service is its own process, so each has its own specification:      *)
(* SpecProxy, SpecGateway and SpecExtract, the provisioning scripts, and    *)
(* for the portal SpecSubmit, SpecAdmin, SpecTasks, SpecToken, SpecSession, *)
(* SpecMember, SpecWrites and SpecPortal.                                   *)
(***************************************************************************)
EXTENDS Integers, Sequences, FiniteSets, TLC

VARIABLES
    \* ---- reverse proxy (one request at a time) ----
    pxReq,        \* the inbound request: [method, path, trigger]
    pxUrl,        \* the path the request was forwarded to, "-" when not proxied
    pxStatus,     \* the status the client gets
    pxBody,       \* what the body of an error answer carries, "-" otherwise
    pxSends,      \* how often the request was sent downstream
    \* ---- gateway webhook receiver ----
    gwKey,        \* process.env.BOX_WEBHOOK_PRIMARY_KEY
    gwN8n,        \* process.env.N8N_WEBHOOK_URL
    whReq,        \* the inbound webhook request: [sig, raw]
    whStatus,     \* the status answered
    whForward,    \* the payload posted to the automation tool by this request, or NoPayload
    \* ---- portal backend ----
    boxClient,    \* TRUE when the Box SDK client was initialised at startup
    users,        \* the users table
    reply,        \* the answer of the last one-step route (login, logout, reads)
    session,      \* the browser session: [user, adminUser]
    db,           \* the claims table: claim id -> row
    nextId,       \* the number of the next claim id (ids are unique)
    boxFolders,   \* the claim folders that exist in Box
    boxFiles,     \* the files that exist in Box: <<folder, file>>
    sub,          \* the claim submission in flight (POST /api/claims)
    adm,          \* the admin requests in flight: request -> record
    admCalls      \* the number of admin status updates and fallback completions so far

pxVars == <<pxReq, pxUrl, pxStatus, pxBody, pxSends>>
gwVars == <<gwKey, gwN8n, whReq, whStatus, whForward>>
poVars == <<boxClient, users, reply, session, db, nextId, boxFolders, boxFiles, sub, adm, admCalls>>

VARIABLES
    \* ---- portal backend: access to the workflow engine ----
    oauthConfigured,      \* CAMUNDA_AUTH_URL && CAMUNDA_CLIENT_ID && CAMUNDA_CLIENT_SECRET
    camundaAccessToken,   \* the cached token
    camundaTokenExpiry,   \* the cached expiry, in ms
    now,                  \* Date.now()
    tokenResponses,       \* the answers of the token endpoint so far
    tk,                   \* the engine requests in flight: request -> record
    tkCalls               \* the number of engine requests so far

tkVars == <<oauthConfigured, camundaAccessToken, camundaTokenExpiry, now, tokenResponses,
            tk, tkCalls>>

VARIABLES
    \* ---- provisioning scripts ----
    remote,         \* the objects of the remote service (webhooks, agents, workflows)
    nextRemoteId,   \* the id the remote service gives the next object
    workflowFiles,  \* the workflow files that exist next to the import script
    run,            \* the script runs: run -> record
    scLog           \* the remote calls of the runs, in the order they were made

scVars == <<remote, nextRemoteId, workflowFiles, run, scLog>>

VARIABLES
    \* ---- gateway: POST /extract (one request at a time) ----
    gwBoxConfigOk,  \* TRUE when the Box configuration of the environment loads
    gwBoxClient,    \* TRUE once initializeBoxClient has set boxClient
    exReq,          \* the inbound request: [body, vendor (what the vendor will answer)]
    exResp,         \* the response
    exVendor        \* the vendor calls made for the request

exVars == <<gwBoxConfigOk, gwBoxClient, exReq, exResp, exVendor>>
restVars == <<tkVars, scVars, exVars>>

\* JavaScript's undefined (an absent body field, header or env variable)
Undefined == "<undefined>"

(***************************************************************************)
(* Reverse proxy                                                            *)
(***************************************************************************)

\* A JavaScript value: a string, an array holding one string, or undefined.
JsString(s) == [t |-> "string", v |-> s]
JsArray1(s) == [t |-> "array", v |-> s]
JsUndefined == [t |-> "undefined", v |-> Undefined]
JsFunction(s) == [t |-> "function", v |-> s]

\* ToBoolean
Truthy(x) ==
    CASE x.t = "undefined" -> FALSE
      [] x.t = "string" -> x.v # ""
      [] OTHER -> TRUE

\* ToString, as a template literal and a property key apply it
ToStr(x) ==
    CASE x.t = "string" -> x.v
      [] x.t = "array" -> x.v
      [] x.t = "undefined" -> "undefined"
      [] OTHER -> x.v

\* the own properties of the TRIGGER_ROUTES object literal
TRIGGER_ROUTES ==
    [k \in {"FILE.UPLOADED",
            "METADATA_INSTANCE.CREATED", "METADATA_INSTANCE.UPDATED",
            "METADATA_INSTANCE.DELETED",
            "TASK_ASSIGNMENT.CREATED", "TASK_ASSIGNMENT.UPDATED",
            "SIGN_REQUEST.COMPLETED", "SIGN_REQUEST.DECLINED", "SIGN_REQUEST.EXPIRED",
            "COLLABORATION.CREATED", "COLLABORATION.REMOVED"} |->
        CASE k = "FILE.UPLOADED" -> "box-file-upload"
          [] k \in {"METADATA_INSTANCE.CREATED", "METADATA_INSTANCE.UPDATED",
                    "METADATA_INSTANCE.DELETED"} -> "box-metadata"
          [] k \in {"TASK_ASSIGNMENT.CREATED", "TASK_ASSIGNMENT.UPDATED"} -> "box-tasks"
          [] k \in {"SIGN_REQUEST.COMPLETED", "SIGN_REQUEST.DECLINED",
                    "SIGN_REQUEST.EXPIRED"} -> "box-sign"
          [] OTHER -> "box-collab"]

\* What TRIGGER_ROUTES inherits: it is an object literal, so a lookup that
\* misses the own properties goes on to Object.prototype.
ObjectPrototype ==
    [k \in {"constructor", "toString", "hasOwnProperty", "__proto__"} |->
        CASE k = "constructor" -> JsFunction("function Object() { [native code] }")
          [] k = "toString" -> JsFunction("function toString() { [native code] }")
          [] k = "hasOwnProperty" -> JsFunction("function hasOwnProperty() { [native code] }")
          [] OTHER -> [t |-> "object", v |-> "[object Object]"]]

\* TRIGGER_ROUTES[trigger]: the key is ToString(trigger)
RouteLookup(trigger) ==
    LET key == ToStr(trigger) IN
    IF key \in DOMAIN TRIGGER_ROUTES THEN JsString(TRIGGER_ROUTES[key])
    ELSE IF key \in DOMAIN ObjectPrototype THEN ObjectPrototype[key]
    ELSE JsUndefined

\* the dispatcher route: req.url after app.post('/webhook/box-file-upload')
DispatchUrl(url, trigger) ==
    IF /\ Truthy(trigger)
       /\ Truthy(RouteLookup(trigger))
       /\ RouteLookup(trigger) # JsString("box-file-upload")
    THEN "/webhook/" \o ToStr(RouteLookup(trigger))
    ELSE url

DispatcherPath == "/webhook/box-file-upload"

\* (mutant) the dispatcher route matches every path
RouteMatchesAnyPath(path) == TRUE

\* the paths app.post('/webhook/box-file-upload') matches: the app keeps
\* Express's defaults, so the match ignores case and one trailing slash
RouteMatches(path) ==
    path \in {DispatcherPath, "/webhook/box-file-upload/", "/Webhook/Box-File-Upload"}

\* the mount points of the three proxy middlewares (matched as prefixes,
\* ignoring case)
Mount(path) ==
    CASE path \in {"/webhook/box-file-upload", "/webhook/box-file-upload/",
                   "/Webhook/Box-File-Upload", "/webhook/box-sign", "/webhook/other"}
              -> "/webhook"
      [] path = "/api/v1/workflows" -> "/api"
      [] path = "/rest/login" -> "/rest"
      [] OTHER -> "-"

PxPaths == {"/webhook/box-file-upload", "/webhook/box-file-upload/",
            "/Webhook/Box-File-Upload", "/webhook/box-sign", "/webhook/other",
            "/api/v1/workflows", "/rest/login", "/other"}
PxTriggers ==
    {JsString(k) : k \in DOMAIN TRIGGER_ROUTES}
        \cup {JsString("FILE.DELETED"), JsString(""), JsUndefined,
              JsString("constructor"), JsString("__proto__"), JsString("toString"),
              JsArray1("SIGN_REQUEST.COMPLETED")}

\* the answer to a request whose downstream connection failed with code: the
\* /webhook proxy has an onError handler, the /api and /rest proxies are
\* created without one and answer through the proxy library's own handler
\* (504 for a refused, reset, unresolved or timed-out connection, 500
\* otherwise, with a fixed text that names the host and the URL)
OnError(mount, code) ==
    IF mount = "/webhook"
    THEN [status |-> 502, body |-> "err.message"]
    ELSE [status |-> IF code = "ECONNREFUSED" THEN 504 ELSE 500,
          body |-> "Error occurred while trying to proxy"]

\* One request through the proxy: the dispatcher route (POST on its path only),
\* then the proxy middleware of the mount the path is under, which sends the
\* request downstream once.
ProxyRequest(method, path, trigger, outcome) ==
    LET url == IF method = "POST" /\ RouteMatches(path)
               THEN DispatchUrl(path, trigger) ELSE path
    IN  /\ pxReq' = [method |-> method, path |-> path, trigger |-> trigger]
        /\ IF Mount(path) = "-"
           THEN pxUrl' = "-" /\ pxStatus' = 404 /\ pxBody' = "-" /\ pxSends' = 0
           ELSE /\ pxUrl' = url
                /\ pxSends' = 1
                /\ IF outcome = "ok"
                   THEN pxStatus' = 200 /\ pxBody' = "-"
                   ELSE /\ pxStatus' = OnError(Mount(path), outcome).status
                        /\ pxBody' = OnError(Mount(path), outcome).body
        /\ UNCHANGED <<gwVars, poVars, restVars>>

PxInit ==
    /\ pxReq = [method |-> "GET", path |-> "/other", trigger |-> JsUndefined]
    /\ pxUrl = "-"
    /\ pxStatus = 404
    /\ pxBody = "-"
    /\ pxSends = 0

\* the automation backend answers, or the connection fails with an error code
PxNext ==
    \E method \in {"POST", "GET"}, path \in PxPaths, trigger \in PxTriggers,
       outcome \in {"ok", "ECONNREFUSED", "EHOSTUNREACH"} :
        ProxyRequest(method, path, trigger, outcome)

(***************************************************************************)
(* Gateway: the Box webhook receiver                                        *)
(***************************************************************************)

\* File names are sequences of characters, so that toLowerCase and includes
\* are computed.
LowerChar(c) ==
    CASE c = "M" -> "m" [] c = "I" -> "i" [] c = "G" -> "g" [] OTHER -> c

toLowerCase(s) == [i \in 1..Len(s) |-> LowerChar(s[i])]

includes(s, part) ==
    \E i \in 0..(Len(s) - Len(part)) : SubSeq(s, i + 1, i + Len(part)) = part

\* the extraction type the receiver derives from the file name
ExtractionTypeFor(fileName) ==
    LET n == toLowerCase(fileName) IN
    IF includes(n, <<"m", "e", "d", "i", "c", "a", "l">>) THEN "medical"
    ELSE IF includes(n, <<"e", "s", "t", "i", "m", "a", "t", "e">>) THEN "estimate"
    ELSE IF includes(n, <<"p", "o", "l", "i", "c", "e">>) THEN "police"
    ELSE IF includes(n, <<"i", "n", "v", "o", "i", "c", "e">>) THEN "invoice"
    ELSE "fnol"

\* The JSON documents a webhook request may carry; NoSource is a document
\* without a source field.
NoSource == [id |-> Undefined, name |-> <<>>]
WhSources ==
    {[id |-> "f1", name |-> <<"M", "e", "d", "i", "c", "a", "l", ".", "p", "d", "f">>],
     [id |-> "f2",
      name |-> <<"p", "o", "l", "i", "c", "e", "-", "e", "s", "t", "i", "m", "a", "t", "e">>],
     [id |-> "f3", name |-> <<"I", "M", "G", ".", "p", "n", "g">>]}
WhDocs ==
    [trigger : {"FILE.UPLOADED"}, source : WhSources \cup {NoSource}]
        \cup [trigger : {"FILE.DELETED", Undefined}, source : {NoSource}]

\* A raw request body: the text of a document, either in the compact form
\* JSON.stringify produces or with other whitespace.
WhRawBodies == [doc : WhDocs, compact : BOOLEAN]

\* express.json(): the parsed body
JSONparse(raw) == raw.doc

\* JSON.stringify: the compact text of a document
JSONstringify(doc) == [doc |-> doc, compact |-> TRUE]

\* A header value: a base64 digest, or some other text (lit); a missing
\* header is HeaderValue(Undefined).
NoText == [doc |-> [trigger |-> Undefined, source |-> NoSource], compact |-> TRUE]
HeaderValue(s) == [lit |-> s, key |-> "", text |-> NoText]

\* crypto.createHmac('sha256', key).update(text).digest('base64')
Hmac(key, text) == [lit |-> "digest", key |-> key, text |-> text]

NoPayload == [event |-> "<none>", fileId |-> Undefined, fileName |-> <<>>,
              extractionType |-> Undefined]

\* the x-box-signature header values a request may carry
WhSignatures(raw) ==
    {HeaderValue(Undefined), HeaderValue(""), HeaderValue("bogus"),
     Hmac("k1", raw), Hmac("k1", JSONstringify(JSONparse(raw))),
     Hmac("k2", JSONstringify(JSONparse(raw)))}

\* the signature check of the receiver: TRUE when the request is rejected
SignatureRejected(primaryKey, signature, body) ==
    /\ primaryKey # Undefined /\ primaryKey # ""
    /\ signature # HeaderValue(Undefined) /\ signature # HeaderValue("")
    /\ signature # Hmac(primaryKey, JSONstringify(body))

\* POST /webhook/box
BoxWebhook(signature, raw, n8nUp) ==
    LET body == JSONparse(raw)
        source == body.source
        payload == [event |-> "file.uploaded", fileId |-> source.id,
                    fileName |-> source.name,
                    extractionType |-> ExtractionTypeFor(source.name)]
    IN  /\ whReq' = [sig |-> signature, raw |-> raw]
        /\ IF SignatureRejected(gwKey, signature, body)
           THEN whStatus' = 401 /\ whForward' = NoPayload
           ELSE IF body.trigger = "FILE.UPLOADED"
           THEN IF source = NoSource
                THEN \* source.id throws a TypeError: the catch answers 500
                     whStatus' = 500 /\ whForward' = NoPayload
                ELSE IF gwN8n # Undefined
                THEN /\ whForward' = payload
                     /\ whStatus' = IF n8nUp THEN 200 ELSE 500
                ELSE whStatus' = 200 /\ whForward' = NoPayload
           ELSE whStatus' = 200 /\ whForward' = NoPayload
        /\ UNCHANGED <<gwKey, gwN8n>>
        /\ UNCHANGED <<pxVars, poVars, restVars>>

NoRequest == [sig |-> HeaderValue(Undefined), raw |-> NoText]

GwInit ==
    /\ gwKey \in {Undefined, "", "k1"}
    /\ gwN8n \in {Undefined, "http://n8n"}
    /\ whReq = NoRequest
    /\ whStatus = 0
    /\ whForward = NoPayload

GwIdle ==
    /\ gwKey = Undefined
    /\ gwN8n = Undefined
    /\ whReq = NoRequest
    /\ whStatus = 0
    /\ whForward = NoPayload

GwNext ==
    \E raw \in WhRawBodies, n8nUp \in BOOLEAN :
        \E signature \in WhSignatures(raw) : BoxWebhook(signature, raw, n8nUp)

(***************************************************************************)
(* Portal backend: sessions, claim submission, admin status update and      *)
(* workflow task completion.  The workflow engine is reached without OAuth  *)
(* (CAMUNDA_AUTH_URL defaults to ''), so a workflow call fetches no token.  *)
(***************************************************************************)

MaxClaims == 1     \* submissions accepted in a run
MaxFiles == 3      \* files attached to one submission
MaxAdminCalls == 2 \* admin status updates and fallback completions in a run

NoUser == "<none>"

\* the member accounts initDatabase seeds
SeedUsers == {[email |-> "john.smith@email.com", password |-> "demo123"],
              [email |-> "sarah.johnson@email.com", password |-> "demo123"]}

\* two entries of the module-level admin table
adminUsers ==
    [e \in {"admin@suresafe.com", "adjuster@suresafe.com"} |->
        IF e = "admin@suresafe.com"
        THEN [name |-> "Admin User", password |-> "admin123"]
        ELSE [name |-> "Sarah Mitchell", password |-> "admin123"]]

\* req.body of the two login routes: <<email, password>>
LoginInputs ==
    {"john.smith@email.com", "sarah.johnson@email.com", "admin@suresafe.com",
     "nobody@example.com"} \X {"demo123", "admin123", "wrong"}

\* the answer of a one-step route: the route, the status, what the request
\* named (credentials, claim id) and the claims the answer holds
NoReply ==
    [route |-> "-", resp |-> 0, email |-> "-", password |-> "-", claim |-> 0, claims |-> {}]

\* POST /api/login
Login(email, password) ==
    LET found == \E u \in users : u.email = email /\ u.password = password
    IN  /\ session' = IF found THEN [session EXCEPT !.user = email] ELSE session
        /\ reply' = [NoReply EXCEPT !.route = "login", !.email = email,
                                    !.password = password,
                                    !.resp = IF found THEN 200 ELSE 401]
        /\ UNCHANGED <<boxClient, users, db, nextId, boxFolders, boxFiles, sub, adm, admCalls>>
        /\ UNCHANGED <<pxVars, gwVars, restVars>>

\* POST /api/logout: req.session.destroy() ends the whole session
Logout ==
    /\ session' = [user |-> NoUser, adminUser |-> NoUser]
    /\ reply' = [NoReply EXCEPT !.route = "logout", !.resp = 200]
    /\ UNCHANGED <<boxClient, users, db, nextId, boxFolders, boxFiles, sub, adm, admCalls>>
    /\ UNCHANGED <<pxVars, gwVars, restVars>>

\* GET /api/user
GetUser ==
    /\ reply' = [NoReply EXCEPT !.route = "user",
                                !.resp = IF session.user # NoUser THEN 200 ELSE 401]
    /\ UNCHANGED <<boxClient, users, session, db, nextId, boxFolders, boxFiles, sub, adm,
                   admCalls>>
    /\ UNCHANGED <<pxVars, gwVars, restVars>>

\* POST /api/admin/login
AdminLogin(email, password) ==
    LET adminUser == IF email \in DOMAIN adminUsers THEN adminUsers[email]
                     ELSE adminUsers["admin@suresafe.com"]
        accepted == password = "admin123" \/ adminUser.password = password
    IN  /\ session' = IF accepted THEN [session EXCEPT !.adminUser = adminUser.name]
                      ELSE session
        /\ reply' = [NoReply EXCEPT !.route = "admin/login", !.email = email,
                                    !.password = password,
                                    !.resp = IF accepted THEN 200 ELSE 401]
        /\ UNCHANGED <<boxClient, users, db, nextId, boxFolders, boxFiles, sub, adm, admCalls>>
        /\ UNCHANGED <<pxVars, gwVars, restVars>>

\* POST /api/admin/logout: req.session.adminUser = null
AdminLogout ==
    /\ session' = [session EXCEPT !.adminUser = NoUser]
    /\ reply' = [NoReply EXCEPT !.route = "admin/logout", !.resp = 200]
    /\ UNCHANGED <<boxClient, users, db, nextId, boxFolders, boxFiles, sub, adm, admCalls>>
    /\ UNCHANGED <<pxVars, gwVars, restVars>>

\* GET /api/admin/user
GetAdminUser ==
    /\ reply' = [NoReply EXCEPT !.route = "admin/user",
                                !.resp = IF session.adminUser # NoUser THEN 200 ELSE 401]
    /\ UNCHANGED <<boxClient, users, session, db, nextId, boxFolders, boxFiles, sub, adm,
                   admCalls>>
    /\ UNCHANGED <<pxVars, gwVars, restVars>>

\* (mutant) the where clause does not name the user
AllClaims(user) == DOMAIN db

\* where: { userId: req.session.user.id }
OwnClaims(user) == {id \in DOMAIN db : db[id].userId = user}

\* GET /api/claims: Claim.findAll({ where: { userId } })
ClaimList(ok) ==
    /\ reply' = IF session.user = NoUser
                THEN [NoReply EXCEPT !.route = "claims", !.resp = 401]
                ELSE IF ok
                THEN [NoReply EXCEPT !.route = "claims", !.resp = 200,
                         !.claims = OwnClaims(session.user)]
                ELSE [NoReply EXCEPT !.route = "claims", !.resp = 500]
    /\ UNCHANGED <<boxClient, users, session, db, nextId, boxFolders, boxFiles, sub, adm,
                   admCalls>>
    /\ UNCHANGED <<pxVars, gwVars, restVars>>

\* GET /api/claims/:id: Claim.findOne({ where: { id, userId } })
ClaimRead(id, ok) ==
    /\ reply' = IF session.user = NoUser
                THEN [NoReply EXCEPT !.route = "claim", !.claim = id, !.resp = 401]
                ELSE IF ~ok
                THEN [NoReply EXCEPT !.route = "claim", !.claim = id, !.resp = 500]
                ELSE IF id \in OwnClaims(session.user)
                THEN [NoReply EXCEPT !.route = "claim", !.claim = id, !.resp = 200,
                                    !.claims = {id}]
                ELSE [NoReply EXCEPT !.route = "claim", !.claim = id, !.resp = 404]
    /\ UNCHANGED <<boxClient, users, session, db, nextId, boxFolders, boxFiles, sub, adm,
                   admCalls>>
    /\ UNCHANGED <<pxVars, gwVars, restVars>>

\* GET /api/box/token: the token exchange, and the session token when it fails
BoxToken(ok) ==
    /\ reply' = [NoReply EXCEPT !.route = "box/token",
                    !.resp = IF session.user = NoUser THEN 401
                             ELSE IF boxClient /\ ok THEN 200 ELSE 500]
    /\ UNCHANGED <<boxClient, users, session, db, nextId, boxFolders, boxFiles, sub, adm,
                   admCalls>>
    /\ UNCHANGED <<pxVars, gwVars, restVars>>

(*-------------------------- claim submission ----------------------------*)

RemoteKey == "remote-key"
DemoKey == "demo-process"

SubIdle ==
    [pc |-> "idle", id |-> 0, user |-> NoUser, n |-> 0, folder |-> 0, idx |-> 1,
     docs |-> <<>>, ai |-> "null", log |-> <<>>, resp |-> 0]

\* one external call of a submission, as the handler made it
Call(op, file, ok) == [op |-> op, file |-> file, ok |-> ok]

\* (mutant) the workflow is started before the row is saved
AfterUploadsStartFirst(docs, folder) ==
    IF Len(docs) > 0 /\ folder # 0 THEN "extract" ELSE "camunda"

\* where the handler goes once the upload loop is over: the extraction call
\* needs an uploaded document and a folder, else the next await is the insert
AfterUploads(docs, folder) ==
    IF Len(docs) > 0 /\ folder # 0 THEN "extract" ELSE "insert"

\* (mutant) the upload loop does not ask for a folder
AfterFolderNoFolderCheck(n, folder) ==
    IF n > 0 /\ boxClient THEN "upload" ELSE AfterUploads(<<>>, folder)

\* where the handler goes once the folder block is over: the upload loop
\* needs files, a client and a folder
AfterFolder(n, folder) ==
    IF n > 0 /\ boxClient /\ folder # 0 THEN "upload" ELSE AfterUploads(<<>>, folder)

\* POST /api/claims arrives with n files
SubmitClaim(n) ==
    /\ sub.pc \in {"idle", "done"}
    /\ session.user = NoUser \/ nextId <= MaxClaims
    /\ IF session.user = NoUser
       THEN /\ sub' = [SubIdle EXCEPT !.pc = "done", !.resp = 401]
            /\ UNCHANGED nextId
       ELSE /\ sub' = [SubIdle EXCEPT !.pc = IF boxClient THEN "folder" ELSE AfterFolder(n, 0),
                                      !.id = nextId, !.user = session.user, !.n = n]
            /\ nextId' = nextId + 1
    /\ UNCHANGED <<boxClient, users, reply, session, db, boxFolders, boxFiles, adm, admCalls>>
    /\ UNCHANGED <<pxVars, gwVars, restVars>>

\* boxClient.folders.create
CreateFolder(ok) ==
    /\ sub.pc = "folder"
    /\ IF ok
       THEN /\ boxFolders' = boxFolders \cup {sub.id}
            /\ sub' = [sub EXCEPT !.folder = sub.id, !.pc = "relay",
                                  !.log = Append(@, Call("folder", 0, TRUE))]
       ELSE /\ UNCHANGED boxFolders
            /\ sub' = [sub EXCEPT !.pc = AfterFolder(sub.n, 0),
                                  !.log = Append(@, Call("folder", 0, FALSE))]
    /\ UNCHANGED <<boxClient, users, reply, session, db, nextId, boxFiles, adm, admCalls>>
    /\ UNCHANGED <<pxVars, gwVars, restVars>>

\* the Box Relay trigger for the new folder; its failure is swallowed
TriggerRelay(ok) ==
    /\ sub.pc = "relay"
    /\ sub' = [sub EXCEPT !.pc = AfterFolder(sub.n, sub.folder),
                          !.log = Append(@, Call("relay", 0, ok))]
    /\ UNCHANGED <<boxClient, users, reply, session, db, nextId, boxFolders, boxFiles, adm, admCalls>>
    /\ UNCHANGED <<pxVars, gwVars, restVars>>

\* (mutant) a failed upload ends the loop
UploadFileStopOnError(ok) ==
    /\ sub.pc = "upload"
    /\ LET docs == IF ok THEN Append(sub.docs, sub.idx) ELSE sub.docs
       IN  /\ sub' = [sub EXCEPT !.docs = docs, !.idx = sub.idx + 1,
                                 !.pc = IF ok /\ sub.idx < sub.n THEN "upload"
                                        ELSE AfterUploads(docs, sub.folder),
                                 !.log = Append(@, Call("upload", sub.idx, ok))]
           /\ boxFiles' = IF ok THEN boxFiles \cup {<<sub.folder, sub.idx>>} ELSE boxFiles
    /\ UNCHANGED <<boxClient, users, reply, session, db, nextId, boxFolders, adm, admCalls>>
    /\ UNCHANGED <<pxVars, gwVars, restVars>>

\* one turn of the upload loop: boxClient.files.uploadFile for file sub.idx
UploadFile(ok) ==
    /\ sub.pc = "upload"
    /\ LET docs == IF ok THEN Append(sub.docs, sub.idx) ELSE sub.docs
       IN  /\ sub' = [sub EXCEPT !.docs = docs, !.idx = sub.idx + 1,
                                 !.pc = IF sub.idx < sub.n THEN "upload"
                                        ELSE AfterUploads(docs, sub.folder),
                                 !.log = Append(@, Call("upload", sub.idx, ok))]
           /\ boxFiles' = IF ok THEN boxFiles \cup {<<sub.folder, sub.idx>>} ELSE boxFiles
    /\ UNCHANGED <<boxClient, users, reply, session, db, nextId, boxFolders, adm, admCalls>>
    /\ UNCHANGED <<pxVars, gwVars, restVars>>

\* (mutant) the extraction call names the last uploaded file
ExtractionTargetLast(docs) == docs[Len(docs)]

\* the file the extraction call names
ExtractionTarget(docs) == docs[1]

\* fetch(CLOUD_RUN_API/extract): an answer of any status is parsed and kept,
\* a network failure leaves aiExtraction null
Extract(outcome) ==
    /\ sub.pc = "extract"
    /\ sub' = [sub EXCEPT !.ai = outcome, !.pc = "insert",
                          !.log = Append(@, Call("extract", ExtractionTarget(sub.docs),
                                                 outcome # "null"))]
    /\ UNCHANGED <<boxClient, users, reply, session, db, nextId, boxFolders, boxFiles, adm, admCalls>>
    /\ UNCHANGED <<pxVars, gwVars, restVars>>

\* the row Claim.create is given
NewClaimRow(s) ==
    [userId |-> s.user,
     status |-> "Submitted",
     statusHistory |-> <<[status |-> "Submitted", updatedBy |-> NoUser]>>,
     boxFolderId |-> s.folder,
     documents |-> s.docs,
     aiExtraction |-> s.ai,
     processInstanceKey |-> "null",
     workflowStatus |-> "NOT_STARTED"]

\* the table with row id written
Put(table, id, row) == [i \in DOMAIN table \cup {id} |-> IF i = id THEN row ELSE table[i]]

\* (mutant) a failed insert removes the folder and the files of the submission
InsertClaimWithRollback(ok) ==
    /\ sub.pc = "insert"
    /\ IF ok
       THEN /\ db' = Put(db, sub.id, NewClaimRow(sub))
            /\ sub' = [sub EXCEPT !.pc = "camunda",
                                  !.log = Append(@, Call("insert", 0, TRUE))]
            /\ UNCHANGED <<boxFolders, boxFiles>>
       ELSE /\ UNCHANGED db
            /\ sub' = [sub EXCEPT !.pc = "done", !.resp = 500,
                                  !.log = Append(@, Call("insert", 0, FALSE))]
            /\ boxFolders' = boxFolders \ {sub.folder}
            /\ boxFiles' = {f \in boxFiles : f[1] # sub.folder}
    /\ UNCHANGED <<boxClient, users, reply, session, nextId, adm, admCalls>>
    /\ UNCHANGED <<pxVars, gwVars, restVars>>

\* Claim.create; a failure reaches the outer catch, which answers 500
InsertClaim(ok) ==
    /\ sub.pc = "insert"
    /\ IF ok
       THEN /\ db' = Put(db, sub.id, NewClaimRow(sub))
            /\ sub' = [sub EXCEPT !.pc = "camunda",
                                  !.log = Append(@, Call("insert", 0, TRUE))]
       ELSE /\ UNCHANGED db
            /\ sub' = [sub EXCEPT !.pc = "done", !.resp = 500,
                                  !.log = Append(@, Call("insert", 0, FALSE))]
    /\ UNCHANGED <<boxClient, users, reply, session, nextId, boxFolders, boxFiles, adm, admCalls>>
    /\ UNCHANGED <<pxVars, gwVars, restVars>>

\* (mutant) a failed workflow-start call is tried again
AfterStartRetry(ok) == IF ok THEN "updStarted" ELSE "camunda"

\* where the handler goes after the workflow-start call
AfterStart(ok) == IF ok THEN "updStarted" ELSE "updDemo"

\* camundaRequest('/v2/process-instances')
StartWorkflow(ok) ==
    /\ sub.pc = "camunda"
    /\ sub' = [sub EXCEPT !.pc = AfterStart(ok),
                          !.log = Append(@, Call("camunda", 0, ok))]
    /\ UNCHANGED <<boxClient, users, reply, session, db, nextId, boxFolders, boxFiles, adm, admCalls>>
    /\ UNCHANGED <<pxVars, gwVars, restVars>>

\* claim.update({processInstanceKey, workflowStatus: 'STARTED'}); it is inside
\* the try, so its failure runs the demo fallback
UpdateStarted(ok) ==
    /\ sub.pc = "updStarted"
    /\ IF ok
       THEN /\ db' = [db EXCEPT ![sub.id].processInstanceKey = RemoteKey,
                                ![sub.id].workflowStatus = "STARTED"]
            /\ sub' = [sub EXCEPT !.pc = "done", !.resp = 200,
                                  !.log = Append(@, Call("update-started", 0, TRUE))]
       ELSE /\ UNCHANGED db
            /\ sub' = [sub EXCEPT !.pc = "updDemo",
                                  !.log = Append(@, Call("update-started", 0, FALSE))]
    /\ UNCHANGED <<boxClient, users, reply, session, nextId, boxFolders, boxFiles, adm, admCalls>>
    /\ UNCHANGED <<pxVars, gwVars, restVars>>

\* claim.update({processInstanceKey: demo-process-..., workflowStatus: 'DEMO'})
\* in the catch; its failure reaches the outer catch, which answers 500
UpdateDemo(ok) ==
    /\ sub.pc = "updDemo"
    /\ IF ok
       THEN /\ db' = [db EXCEPT ![sub.id].processInstanceKey = DemoKey,
                                ![sub.id].workflowStatus = "DEMO"]
            /\ sub' = [sub EXCEPT !.pc = "done", !.resp = 200,
                                  !.log = Append(@, Call("update-demo", 0, TRUE))]
       ELSE /\ UNCHANGED db
            /\ sub' = [sub EXCEPT !.pc = "done", !.resp = 500,
                                  !.log = Append(@, Call("update-demo", 0, FALSE))]
    /\ UNCHANGED <<boxClient, users, reply, session, nextId, boxFolders, boxFiles, adm, admCalls>>
    /\ UNCHANGED <<pxVars, gwVars, restVars>>

(*--------------------------- admin requests -----------------------------*)

AdminRequests == {"r1", "r2"}

\* the variables object of a task completion; "" stands for a field whose
\* value is falsy, Undefined for a field that is absent
NoVariables ==
    [present |-> FALSE, adjusterDecision |-> Undefined, reviewDecision |-> Undefined,
     managerDecision |-> Undefined, investigationOutcome |-> Undefined]
Variables(a, r, m, i) ==
    [present |-> TRUE, adjusterDecision |-> a, reviewDecision |-> r,
     managerDecision |-> m, investigationOutcome |-> i]

AdmIdle ==
    [pc |-> "idle", kind |-> "-", claim |-> 0, status |-> Undefined, by |-> NoUser,
     variables |-> NoVariables, snapStatus |-> Undefined, snapHist |-> <<>>, resp |-> 0]

\* (mutant) every admin request is answered with success
AnsweredOk(code) == [AdmIdle EXCEPT !.pc = "done", !.resp = 200]

\* a request that was answered: what it was about, and the status it got
\* (0: the handler threw outside any try, no answer is sent)
Answered(code) == [AdmIdle EXCEPT !.pc = "done", !.resp = code]
AnsweredOn(a, code) ==
    [AdmIdle EXCEPT !.pc = "done", !.kind = a.kind, !.claim = a.claim, !.resp = code]

\* a || b
Or(a, b) == IF a \notin {Undefined, ""} THEN a ELSE b

\* the decision the fallback reads from the variables
DecisionOf(v) ==
    Or(v.adjusterDecision, Or(v.reviewDecision, Or(v.managerDecision, v.investigationOutcome)))

\* (mutant) an escalation is stored as a denial
NewStatusForEscalateDenied(status, decision) ==
    IF decision \in {"approve", "approved", "CLEARED"} THEN "Approved"
    ELSE IF decision \in {"deny", "FRAUD_CONFIRMED", "escalate"} THEN "Denied"
    ELSE IF decision = "request_more_docs" THEN "Pending Documents"
    ELSE status

\* the status the fallback derives from the decision
NewStatusFor(status, decision) ==
    IF decision \in {"approve", "approved", "CLEARED"} THEN "Approved"
    ELSE IF decision \in {"deny", "FRAUD_CONFIRMED"} THEN "Denied"
    ELSE IF decision = "escalate" THEN "Escalated"
    ELSE IF decision = "request_more_docs" THEN "Pending Documents"
    ELSE status

\* statusHistory.unshift(entry)
Unshift(hist, entry) == <<entry>> \o hist

\* (mutant) the update also clears the owner of the claim
UpdateStatusDropOwner(row, status, hist) ==
    [row EXCEPT !.status = IF status = Undefined THEN @ ELSE status,
                !.statusHistory = hist, !.userId = NoUser]

\* claim.update({status, statusHistory}): update() drops a value that is
\* undefined, so the status column is written only when a status is given
UpdateStatus(row, status, hist) ==
    [row EXCEPT !.status = IF status = Undefined THEN @ ELSE status,
                !.statusHistory = hist]

StatusInputs == {"Under Review", Undefined}
VariableInputs ==
    {NoVariables,
     Variables("approve", Undefined, Undefined, Undefined),
     Variables("", "deny", Undefined, Undefined),
     Variables(Undefined, Undefined, Undefined, "bogus")}

\* the variables of the task forms: every decision of the table through one
\* of the four fields, an unknown one, and fields with a falsy value in front
DecisionInputs ==
    {NoVariables}
    \cup {Variables(d, Undefined, Undefined, Undefined) : d \in {"approve", "deny", "hold"}}
    \cup {Variables(Undefined, d, Undefined, Undefined) :
             d \in {"approved", "escalate", "request_more_docs"}}
    \cup {Variables("", "deny", Undefined, Undefined),
          Variables(Undefined, Undefined, "approve", "FRAUD_CONFIRMED"),
          Variables(Undefined, Undefined, Undefined, "CLEARED"),
          Variables(Undefined, Undefined, "", "FRAUD_CONFIRMED")}

\* PUT /api/admin/claims/:id/status, up to the answer of findByPk
AdminStatusRead(r, id, status) ==
    /\ adm[r].pc \in {"idle", "done"}
    /\ IF session.adminUser = NoUser
       THEN adm' = [adm EXCEPT ![r] = Answered(401)]
       ELSE IF id \notin DOMAIN db
       THEN adm' = [adm EXCEPT ![r] = Answered(404)]
       ELSE adm' = [adm EXCEPT ![r] =
                  [AdmIdle EXCEPT !.pc = "read", !.kind = "status", !.claim = id,
                                  !.status = status, !.by = session.adminUser,
                                  !.snapStatus = db[id].status,
                                  !.snapHist = db[id].statusHistory]]
    /\ admCalls < MaxAdminCalls
    /\ admCalls' = admCalls + 1
    /\ UNCHANGED <<boxClient, users, reply, session, db, nextId, boxFolders, boxFiles, sub>>
    /\ UNCHANGED <<pxVars, gwVars, restVars>>

\* ... and its claim.update and answer
AdminStatusWrite(r, ok) ==
    /\ adm[r].pc = "read" /\ adm[r].kind = "status"
    /\ IF ok
       THEN /\ db' = [db EXCEPT ![adm[r].claim] =
                        UpdateStatus(@, adm[r].status,
                            Unshift(adm[r].snapHist,
                                    [status |-> adm[r].status, updatedBy |-> adm[r].by]))]
            /\ adm' = [adm EXCEPT ![r] = AnsweredOn(@, 200)]
       ELSE /\ UNCHANGED db
            /\ adm' = [adm EXCEPT ![r] = AnsweredOn(@, 500)]
    /\ UNCHANGED <<boxClient, users, reply, session, nextId, boxFolders, boxFiles, sub, admCalls>>
    /\ UNCHANGED <<pxVars, gwVars, restVars>>

\* POST /api/admin/camunda/task/:taskId/complete, the engine completes the
\* task: the answer is sent and nothing is read from or written to the database
TaskCompleteRemote(r, id, variables) ==
    /\ adm[r].pc \in {"idle", "done"}
    /\ adm' = [adm EXCEPT ![r] =
                  IF session.adminUser = NoUser
                  THEN Answered(401)
                  ELSE [AdmIdle EXCEPT !.pc = "done", !.kind = "remote", !.claim = id,
                                       !.variables = variables, !.resp = 200]]
    /\ UNCHANGED <<boxClient, users, reply, session, db, nextId, boxFolders, boxFiles, sub, admCalls>>
    /\ UNCHANGED <<pxVars, gwVars, restVars>>

\* ... the engine call failed: the fallback, up to the answer of findByPk
TaskCompleteFallbackRead(r, id, variables) ==
    /\ adm[r].pc \in {"idle", "done"}
    /\ session.adminUser # NoUser
    /\ IF id \in DOMAIN db /\ variables.present
       THEN adm' = [adm EXCEPT ![r] =
                  [AdmIdle EXCEPT !.pc = "read", !.kind = "task", !.claim = id,
                                  !.by = session.adminUser, !.variables = variables,
                                  !.snapStatus = db[id].status,
                                  !.snapHist = db[id].statusHistory]]
       ELSE adm' = [adm EXCEPT ![r] = Answered(200)]
    /\ admCalls < MaxAdminCalls
    /\ admCalls' = admCalls + 1
    /\ UNCHANGED <<boxClient, users, reply, session, db, nextId, boxFolders, boxFiles, sub>>
    /\ UNCHANGED <<pxVars, gwVars, restVars>>

\* ... and its claim.update and answer.  When the decision leaves the status
\* as it was read, no attribute of the instance is seen as changed (the
\* history array was changed in place), and whether an UPDATE is issued
\* depends on the model definition: both outcomes are taken (persist).  A
\* failing update is thrown from the catch block: the request gets no answer.
TaskCompleteWrite(r, ok, persist) ==
    /\ adm[r].pc = "read" /\ adm[r].kind = "task"
    /\ LET newStatus == NewStatusFor(adm[r].snapStatus, DecisionOf(adm[r].variables))
           written == newStatus # adm[r].snapStatus \/ persist
       IN  IF ok
           THEN /\ db' = IF written
                         THEN [db EXCEPT ![adm[r].claim] =
                                 UpdateStatus(@, newStatus,
                                     Unshift(adm[r].snapHist,
                                             [status |-> newStatus, updatedBy |-> adm[r].by]))]
                         ELSE db
                /\ adm' = [adm EXCEPT ![r] = AnsweredOn(@, 200)]
           ELSE /\ UNCHANGED db
                /\ adm' = [adm EXCEPT ![r] = AnsweredOn(@, 0)]
    /\ UNCHANGED <<boxClient, users, reply, session, nextId, boxFolders, boxFiles, sub, admCalls>>
    /\ UNCHANGED <<pxVars, gwVars, restVars>>

\* POST /api/admin/camunda/start-process, up to the answer of the engine:
\* a failed call goes to the catch
StartProcess(r, id, ok) ==
    /\ adm[r].pc \in {"idle", "done"}
    /\ adm' = [adm EXCEPT ![r] =
                  IF session.adminUser = NoUser
                  THEN Answered(401)
                  ELSE [AdmIdle EXCEPT !.pc = IF ok THEN "start" ELSE "startDemo",
                                       !.kind = "start", !.claim = id,
                                       !.by = session.adminUser]]
    /\ admCalls < MaxAdminCalls
    /\ admCalls' = admCalls + 1
    /\ UNCHANGED <<boxClient, users, reply, session, db, nextId, boxFolders, boxFiles, sub>>
    /\ UNCHANGED <<pxVars, gwVars, restVars>>

\* ... findByPk and claim.update: with the engine's key in the try, whose
\* failure goes to the catch; with a demo-process key in the catch, whose
\* failure leaves the request without an answer.  Both write STARTED.
StartProcessWrite(r, ok) ==
    /\ adm[r].pc \in {"start", "startDemo"}
    /\ LET id == adm[r].claim
           key == IF adm[r].pc = "start" THEN RemoteKey ELSE DemoKey
       IN  IF id \notin DOMAIN db
           THEN /\ UNCHANGED db
                /\ adm' = [adm EXCEPT ![r] = AnsweredOn(@, 200)]
           ELSE IF ok
           THEN /\ db' = [db EXCEPT ![id].processInstanceKey = key,
                                    ![id].workflowStatus = "STARTED"]
                /\ adm' = [adm EXCEPT ![r] = AnsweredOn(@, 200)]
           ELSE /\ UNCHANGED db
                /\ adm' = [adm EXCEPT ![r] =
                              IF adm[r].pc = "start"
                              THEN [@ EXCEPT !.pc = "startDemo"]
                              ELSE AnsweredOn(@, 0)]
    /\ UNCHANGED <<boxClient, users, reply, session, nextId, boxFolders, boxFiles, sub,
                   admCalls>>
    /\ UNCHANGED <<pxVars, gwVars, restVars>>

PoInit ==
    /\ boxClient \in BOOLEAN
    /\ users = SeedUsers
    /\ reply = NoReply
    /\ session = [user |-> NoUser, adminUser |-> NoUser]
    /\ db = <<>>
    /\ nextId = 1
    /\ boxFolders = {}
    /\ boxFiles = {}
    /\ sub = SubIdle
    /\ adm = [r \in AdminRequests |-> AdmIdle]
    /\ admCalls = 0

PoIdle ==
    /\ boxClient = FALSE
    /\ users = SeedUsers
    /\ reply = NoReply
    /\ session = [user |-> NoUser, adminUser |-> NoUser]
    /\ db = <<>>
    /\ nextId = 1
    /\ boxFolders = {}
    /\ boxFiles = {}
    /\ sub = SubIdle
    /\ adm = [r \in AdminRequests |-> AdmIdle]
    /\ admCalls = 0

\* the member desk: submissions with 0..MaxFiles files
SubmitNext ==
    \/ Login("john.smith@email.com", "demo123")
    \/ Logout
    \/ \E n \in 0..MaxFiles : SubmitClaim(n)
    \/ \E ok \in BOOLEAN : CreateFolder(ok)
    \/ \E ok \in BOOLEAN : TriggerRelay(ok)
    \/ \E ok \in BOOLEAN : UploadFile(ok)
    \/ \E o \in {"extracted", "error-body", "null"} : Extract(o)
    \/ \E ok \in BOOLEAN : InsertClaim(ok)
    \/ \E ok \in BOOLEAN : StartWorkflow(ok)
    \/ \E ok \in BOOLEAN : UpdateStarted(ok)
    \/ \E ok \in BOOLEAN : UpdateDemo(ok)

\* the admin desk: a member and an admin log in; the status-changing calls,
\* two admin requests in flight, on claims submitted without attachments
AdminNext ==
    \/ Login("john.smith@email.com", "demo123")
    \/ AdminLogin("admin@suresafe.com", "admin123")
    \/ SubmitClaim(0)
    \/ \E ok \in BOOLEAN : InsertClaim(ok)
    \/ \E ok \in BOOLEAN : StartWorkflow(ok)
    \/ \E ok \in BOOLEAN : UpdateStarted(ok)
    \/ \E ok \in BOOLEAN : UpdateDemo(ok)
    \/ \E r \in AdminRequests, id \in 1..MaxClaims, s \in StatusInputs :
          AdminStatusRead(r, id, s)
    \/ \E r \in AdminRequests, ok \in BOOLEAN : AdminStatusWrite(r, ok)
    \/ \E r \in AdminRequests, id \in 1..MaxClaims, v \in VariableInputs :
          TaskCompleteRemote(r, id, v)
    \/ \E r \in AdminRequests, id \in 1..MaxClaims, v \in VariableInputs :
          TaskCompleteFallbackRead(r, id, v)
    \/ \E r \in AdminRequests, ok \in BOOLEAN, persist \in BOOLEAN :
          TaskCompleteWrite(r, ok, persist)

\* the member routes: the two members log in and out, submit a claim, read
\* the claim list and single claims, and ask for a storage token
MemberNext ==
    \/ \E e \in {"john.smith@email.com", "sarah.johnson@email.com"} : Login(e, "demo123")
    \/ Logout
    \/ \E ok \in BOOLEAN : ClaimList(ok)
    \/ \E id \in 1..MaxClaims + 1, ok \in BOOLEAN : ClaimRead(id, ok)
    \/ \E ok \in BOOLEAN : BoxToken(ok)
    \/ SubmitClaim(0)
    \/ \E ok \in BOOLEAN : InsertClaim(ok)
    \/ \E ok \in BOOLEAN : StartWorkflow(ok)
    \/ \E ok \in BOOLEAN : UpdateStarted(ok)
    \/ \E ok \in BOOLEAN : UpdateDemo(ok)

\* every route that writes to the claims table, with the logins in front of
\* it: a member submits, an admin updates a status, completes a task (with
\* and without a decision) or starts a process
WritesNext ==
    \/ Login("john.smith@email.com", "demo123")
    \/ AdminLogin("admin@suresafe.com", "admin123")
    \/ Logout
    \/ AdminLogout
    \/ SubmitClaim(0)
    \/ \E ok \in BOOLEAN : InsertClaim(ok)
    \/ \E ok \in BOOLEAN : StartWorkflow(ok)
    \/ \E ok \in BOOLEAN : UpdateStarted(ok)
    \/ \E ok \in BOOLEAN : UpdateDemo(ok)
    \/ \E id \in 1..MaxClaims + 1 : AdminStatusRead("r1", id, "Under Review")
    \/ \E ok \in BOOLEAN : AdminStatusWrite("r1", ok)
    \/ \E id \in 1..MaxClaims,
          v \in {NoVariables, Variables("approve", Undefined, Undefined, Undefined)} :
           \/ TaskCompleteRemote("r1", id, v)
           \/ TaskCompleteFallbackRead("r1", id, v)
    \/ \E ok \in BOOLEAN, persist \in BOOLEAN : TaskCompleteWrite("r1", ok, persist)
    \/ \E id \in 1..MaxClaims + 1, ok \in BOOLEAN : StartProcess("r1", id, ok)
    \/ \E ok \in BOOLEAN : StartProcessWrite("r1", ok)

\* the whole portal without a Box client: the member routes and the routes
\* that write
PortalNext == MemberNext \/ WritesNext

(*------------------- access to the workflow engine ----------------------*)

MaxEngineCalls == 3   \* engine requests in a run
MaxTicks == 3         \* minutes that pass in a run

EngineRequests == {"q1", "q2"}

\* null and undefined as token, null and NaN as expiry: all of them falsy,
\* and NaN compares false with every number
NullValue == 0
UndefinedValue == -1
NaN == -2
StartTime == 600000

\* the body of a token answer: [access_token, expires_in, at (when read)]
TokenBody(n, e, t) == [access_token |-> n, expires_in |-> e, at |-> t]

\* (mutant) a cached token is used whatever the time
CacheValidIgnoringExpiry(token, expiry, t) == token > 0 /\ expiry > 0

\* camundaAccessToken && camundaTokenExpiry && Date.now() < camundaTokenExpiry
CacheValid(token, expiry, t) == token > 0 /\ expiry > 0 /\ t < expiry

\* Date.now() + (data.expires_in * 1000) - 60000
ExpiryOf(data, t) ==
    IF data.expires_in = UndefinedValue THEN NaN ELSE t + data.expires_in * 1000 - 60000

\* (mutant) the token is stored, the expiry of the last token is kept
StoreTokenKeepExpiry(data, t) ==
    [token |-> data.access_token,
     expiry |-> IF camundaTokenExpiry = NullValue THEN ExpiryOf(data, t)
                ELSE camundaTokenExpiry]

\* the two assignments that follow await response.json(): no await between them
StoreToken(data, t) ==
    [token |-> data.access_token, expiry |-> ExpiryOf(data, t)]

TkIdle == [pc |-> "idle", token |-> NullValue, bearer |-> NullValue, resp |-> 0]

\* camundaRequest is called: getCamundaAccessToken up to its first await
EngineRequest(q) ==
    /\ tk[q].pc \in {"idle", "done"}
    /\ tkCalls < MaxEngineCalls
    /\ tkCalls' = tkCalls + 1
    /\ tk' = [tk EXCEPT ![q] =
                IF CacheValid(camundaAccessToken, camundaTokenExpiry, now)
                THEN [TkIdle EXCEPT !.pc = "call", !.token = camundaAccessToken]
                ELSE IF oauthConfigured
                THEN [TkIdle EXCEPT !.pc = "fetch"]
                ELSE [TkIdle EXCEPT !.pc = "call", !.token = NullValue]]
    /\ UNCHANGED <<oauthConfigured, camundaAccessToken, camundaTokenExpiry, now,
                   tokenResponses>>
    /\ UNCHANGED <<pxVars, gwVars, poVars, scVars, exVars>>

\* the token endpoint answers: with a token and expires_in e, or (e
\* undefined) with an error body that has neither; response.ok is not looked at
TokenAnswered(q, e) ==
    /\ tk[q].pc = "fetch"
    /\ LET data == IF e = UndefinedValue
                   THEN TokenBody(UndefinedValue, UndefinedValue, now)
                   ELSE TokenBody(Len(tokenResponses) + 1, e, now)
           stored == StoreToken(data, now)
       IN  /\ tokenResponses' = Append(tokenResponses, data)
           /\ camundaAccessToken' = stored.token
           /\ camundaTokenExpiry' = stored.expiry
           /\ tk' = [tk EXCEPT ![q].pc = "call", ![q].token = stored.token]
    /\ UNCHANGED <<oauthConfigured, now, tkCalls>>
    /\ UNCHANGED <<pxVars, gwVars, poVars, scVars, exVars>>

\* the token fetch throws (network, body that is not JSON): return null
TokenFailed(q) ==
    /\ tk[q].pc = "fetch"
    /\ tk' = [tk EXCEPT ![q].pc = "call", ![q].token = NullValue]
    /\ UNCHANGED <<oauthConfigured, camundaAccessToken, camundaTokenExpiry, now,
                   tokenResponses, tkCalls>>
    /\ UNCHANGED <<pxVars, gwVars, poVars, scVars, exVars>>

\* the engine call itself: the Authorization header is set for a truthy token
EngineCall(q, ok) ==
    /\ tk[q].pc = "call"
    /\ tk' = [tk EXCEPT ![q].pc = "done",
                        ![q].bearer = IF tk[q].token > 0 THEN tk[q].token ELSE NullValue,
                        ![q].resp = IF ok THEN 200 ELSE 500]
    /\ UNCHANGED <<oauthConfigured, camundaAccessToken, camundaTokenExpiry, now,
                   tokenResponses, tkCalls>>
    /\ UNCHANGED <<pxVars, gwVars, poVars, scVars, exVars>>

\* a minute passes
ClockTick ==
    /\ now < StartTime + MaxTicks * 60000
    /\ now' = now + 60000
    /\ UNCHANGED <<oauthConfigured, camundaAccessToken, camundaTokenExpiry,
                   tokenResponses, tk, tkCalls>>
    /\ UNCHANGED <<pxVars, gwVars, poVars, scVars, exVars>>

TkInit ==
    /\ oauthConfigured \in BOOLEAN
    /\ camundaAccessToken = NullValue
    /\ camundaTokenExpiry = NullValue
    /\ now = StartTime
    /\ tokenResponses = <<>>
    /\ tk = [q \in EngineRequests |-> TkIdle]
    /\ tkCalls = 0

TkStill ==
    /\ oauthConfigured = FALSE
    /\ camundaAccessToken = NullValue
    /\ camundaTokenExpiry = NullValue
    /\ now = StartTime
    /\ tokenResponses = <<>>
    /\ tk = [q \in EngineRequests |-> TkIdle]
    /\ tkCalls = 0


TokenNext ==
    \/ \E q \in EngineRequests : EngineRequest(q)
    \/ \E q \in EngineRequests, e \in {60, 120, 180, UndefinedValue} :
          TokenAnswered(q, e)
    \/ \E q \in EngineRequests : TokenFailed(q)
    \/ \E q \in EngineRequests, ok \in BOOLEAN : EngineCall(q, ok)
    \/ ClockTick

(***************************************************************************)
(* Provisioning scripts: create-webhooks.js, the AI agent script            *)
(***************************************************************************)
MaxDefs == 2   \* definitions a run of a script goes through

Runs == {"p1", "p2"}

TARGET_FOLDER_ID == "360174903981"

\* WEBHOOKS: name, target folder and triggers of each definition
WEBHOOKS ==
    << [name |-> "File Upload Handler", target |-> TARGET_FOLDER_ID,
        triggers |-> {"FILE.UPLOADED"}],
       [name |-> "Metadata Change Handler", target |-> TARGET_FOLDER_ID,
        triggers |-> {"METADATA_INSTANCE.CREATED", "METADATA_INSTANCE.UPDATED",
                      "METADATA_INSTANCE.DELETED"}],
       [name |-> "Task Handler", target |-> TARGET_FOLDER_ID,
        triggers |-> {"TASK_ASSIGNMENT.CREATED", "TASK_ASSIGNMENT.UPDATED"}],
       [name |-> "Box Sign Handler", target |-> TARGET_FOLDER_ID,
        triggers |-> {"SIGN_REQUEST.COMPLETED", "SIGN_REQUEST.DECLINED",
                      "SIGN_REQUEST.EXPIRED"}],
       [name |-> "Collaboration Handler", target |-> TARGET_FOLDER_ID,
        triggers |-> {"COLLABORATION.CREATED", "COLLABORATION.REMOVED"}] >>

\* AI_AGENTS: the names of the definitions
AI_AGENTS ==
    <<"Claims Intelligence Agent", "Fraud Detection Agent", "Policy Coverage Agent">>

\* the definitions a run goes through
DefsOf(list) == IF Len(list) < MaxDefs THEN Len(list) ELSE MaxDefs

\* an object of the remote service: a webhook (id, target folder, triggers),
\* an agent or a workflow (id, name)
RemoteObject(id, target, triggers, name) ==
    [id |-> id, target |-> target, triggers |-> triggers, name |-> name]

RunIdle == [pc |-> "idle", listing |-> {}, idx |-> 1, obj |-> 0, results |-> <<>>]

\* one call of a run to the remote service
RemoteCall(p, op, def, ok) == [run |-> p, op |-> op, def |-> def, ok |-> ok]

\* existingWebhooks.find(w => w.target?.id === webhookDef.target.id &&
\*                            w.triggers?.some(t => webhookDef.triggers.includes(t)))
ExistingWebhooks(listing, webhookDef) ==
    {w \in listing : w.target = webhookDef.target
                       /\ w.triggers \cap webhookDef.triggers # {}}

\* where the loop goes after definition idx
AfterDef(idx, list) == IF idx >= DefsOf(list) THEN "done" ELSE "loop"

\* node create-webhooks.js: configuration and client.users.get('me'); a
\* failure of either ends the run
WebhookStart(p, ok) ==
    /\ run[p].pc = "idle"
    /\ run' = [run EXCEPT ![p].pc = IF ok THEN "list" ELSE "done"]
    /\ scLog' = Append(scLog, RemoteCall(p, "start", 0, ok))
    /\ UNCHANGED <<remote, nextRemoteId, workflowFiles>>
    /\ UNCHANGED <<pxVars, gwVars, poVars, tkVars, exVars>>

\* client.webhooks.getAll(); when it throws the run goes on with an empty list
WebhookList(p, ok) ==
    /\ run[p].pc = "list"
    /\ run' = [run EXCEPT ![p].pc = "loop",
                          ![p].listing = IF ok THEN remote ELSE {}]
    /\ scLog' = Append(scLog, RemoteCall(p, "list", 0, ok))
    /\ UNCHANGED <<remote, nextRemoteId, workflowFiles>>
    /\ UNCHANGED <<pxVars, gwVars, poVars, tkVars, exVars>>

\* (mutant) the remote webhooks are looked up again before each create
WebhookLookupFresh(p) == remote

\* the webhooks a definition is compared with: the list read before the loop
WebhookLookup(p) == run[p].listing

\* one turn of the loop over WEBHOOKS
WebhookStep(p, ok) ==
    /\ run[p].pc = "loop"
    /\ LET idx == run[p].idx
           webhookDef == WEBHOOKS[idx]
           pc == AfterDef(idx, WEBHOOKS)
       IN  IF ExistingWebhooks(WebhookLookup(p), webhookDef) # {}
           THEN /\ run' = [run EXCEPT ![p].pc = pc, ![p].idx = idx + 1,
                                      ![p].results = Append(@, "exists")]
                /\ UNCHANGED <<remote, nextRemoteId, scLog>>
           ELSE /\ scLog' = Append(scLog, RemoteCall(p, "create", idx, ok))
                /\ IF ok
                   THEN /\ remote' = remote \cup {RemoteObject(nextRemoteId, webhookDef.target,
                                                 webhookDef.triggers, "-")}
                        /\ nextRemoteId' = nextRemoteId + 1
                        /\ run' = [run EXCEPT ![p].pc = pc, ![p].idx = idx + 1,
                                              ![p].results = Append(@, "created")]
                   ELSE /\ UNCHANGED <<remote, nextRemoteId>>
                        /\ run' = [run EXCEPT ![p].pc = pc, ![p].idx = idx + 1,
                                              ![p].results = Append(@, "error")]
    /\ UNCHANGED workflowFiles
    /\ UNCHANGED <<pxVars, gwVars, poVars, tkVars, exVars>>

\* the agent script: configuration and client.users.get('me'); a failure of
\* either ends the run (process.exit)
AgentStart(p, ok) ==
    /\ run[p].pc = "idle"
    /\ run' = [run EXCEPT ![p].pc = IF ok THEN "loop" ELSE "done"]
    /\ scLog' = Append(scLog, RemoteCall(p, "start", 0, ok))
    /\ UNCHANGED <<remote, nextRemoteId, workflowFiles>>
    /\ UNCHANGED <<pxVars, gwVars, poVars, tkVars, exVars>>

\* one turn of the loop over AI_AGENTS: client.post('/ai_agents'); when it
\* throws the configuration is saved to a file
AgentStep(p, ok) ==
    /\ run[p].pc = "loop"
    /\ LET idx == run[p].idx
           pc == AfterDef(idx, AI_AGENTS)
       IN  /\ scLog' = Append(scLog, RemoteCall(p, "create", idx, ok))
           /\ IF ok
              THEN /\ remote' = remote \cup {RemoteObject(nextRemoteId, "-", {}, AI_AGENTS[idx])}
                   /\ nextRemoteId' = nextRemoteId + 1
                   /\ run' = [run EXCEPT ![p].pc = pc, ![p].idx = idx + 1,
                                         ![p].results = Append(@, "created")]
              ELSE /\ UNCHANGED <<remote, nextRemoteId>>
                   /\ run' = [run EXCEPT ![p].pc = pc, ![p].idx = idx + 1,
                                         ![p].results = Append(@, "config_saved")]
    /\ UNCHANGED workflowFiles
    /\ UNCHANGED <<pxVars, gwVars, poVars, tkVars, exVars>>

(*----------------------- the workflow import script ---------------------*)

\* the files are taken to hold different names, and the file name stands for
\* workflowData.name, the name it holds
WORKFLOW_FILES ==
    <<"box-file-upload-workflow.json", "fraud-alert-workflow.json",
      "metadata-sync-workflow.json", "box-sign-workflow.json",
      "task-handler-workflow.json">>

\* one line of results
ImportResult(file, id, action, status) ==
    [file |-> file, id |-> id, action |-> action, status |-> status]

\* where main goes after a file
AfterFile(idx) == IF idx >= Len(WORKFLOW_FILES) THEN "done" ELSE "loop"

\* existingWorkflows.data?.find(w => w.name === workflowData.name)
ExistingWorkflows(listing, name) == {w \in listing : w.name = name}

\* main is started (N8N_API_KEY is set)
ImportStart(p) ==
    /\ run[p].pc = "idle"
    /\ run' = [run EXCEPT ![p].pc = "loop"]
    /\ scLog' = Append(scLog, RemoteCall(p, "start", 0, TRUE))
    /\ UNCHANGED <<remote, nextRemoteId, workflowFiles>>
    /\ UNCHANGED <<pxVars, gwVars, poVars, tkVars, exVars>>

\* importWorkflow up to the answer of the list call: a file that does not
\* exist is skipped without a call and without a line of results
ImportList(p, ok) ==
    /\ run[p].pc = "loop"
    /\ LET idx == run[p].idx
       IN  IF idx \notin workflowFiles
           THEN /\ run' = [run EXCEPT ![p].pc = AfterFile(idx), ![p].idx = idx + 1]
                /\ UNCHANGED scLog
           ELSE /\ scLog' = Append(scLog, RemoteCall(p, "list", idx, ok))
                /\ run' = IF ok
                          THEN [run EXCEPT ![p].pc = "write", ![p].listing = remote]
                          ELSE [run EXCEPT ![p].pc = AfterFile(idx), ![p].idx = idx + 1,
                                           ![p].results =
                                               Append(@, ImportResult(idx, 0, "-", "error"))]
    /\ UNCHANGED <<remote, nextRemoteId, workflowFiles>>
    /\ UNCHANGED <<pxVars, gwVars, poVars, tkVars, exVars>>

\* the PATCH of the workflow found by name, or the POST of a new one
ImportWrite(p, ok) ==
    /\ run[p].pc = "write"
    /\ LET idx == run[p].idx
           found == ExistingWorkflows(run[p].listing, WORKFLOW_FILES[idx])
           existing == CHOOSE w \in found : \A v \in found : w.id <= v.id
           failed == [run EXCEPT ![p].pc = AfterFile(idx), ![p].idx = idx + 1,
                                 ![p].results =
                                     Append(@, ImportResult(idx, 0, "-", "error"))]
       IN  IF found # {}
           THEN /\ scLog' = Append(scLog, RemoteCall(p, "update", idx, ok))
                /\ run' = IF ok
                          THEN [run EXCEPT ![p].pc = "activate", ![p].obj = existing.id,
                                           ![p].results = Append(@,
                                               ImportResult(idx, existing.id, "updated", "-"))]
                          ELSE failed
                /\ UNCHANGED <<remote, nextRemoteId>>
           ELSE /\ scLog' = Append(scLog, RemoteCall(p, "create", idx, ok))
                /\ IF ok
                   THEN /\ remote' = remote \cup {RemoteObject(nextRemoteId, "-", {}, WORKFLOW_FILES[idx])}
                        /\ nextRemoteId' = nextRemoteId + 1
                        /\ run' = [run EXCEPT ![p].pc = "activate", ![p].obj = nextRemoteId,
                                              ![p].results = Append(@,
                                                  ImportResult(idx, nextRemoteId, "created", "-"))]
                   ELSE /\ run' = failed
                        /\ UNCHANGED <<remote, nextRemoteId>>
    /\ UNCHANGED workflowFiles
    /\ UNCHANGED <<pxVars, gwVars, poVars, tkVars, exVars>>

\* activateWorkflow(result.id): false when the call fails; then
\* results.push({ file, ...result, status: 'success' }), whatever it returned
ImportActivate(p, ok) ==
    /\ run[p].pc = "activate"
    /\ LET idx == run[p].idx
           last == Len(run[p].results)
       IN  /\ scLog' = Append(scLog, RemoteCall(p, "activate", idx, ok))
           /\ run' = [run EXCEPT ![p].pc = AfterFile(idx), ![p].idx = idx + 1,
                                 ![p].obj = 0,
                                 ![p].results[last].status = "success"]
    /\ UNCHANGED <<remote, nextRemoteId, workflowFiles>>
    /\ UNCHANGED <<pxVars, gwVars, poVars, tkVars, exVars>>

ImportNext ==
    \/ ImportStart("p1")
    \/ \E ok \in BOOLEAN : ImportList("p1", ok)
    \/ \E ok \in BOOLEAN : ImportWrite("p1", ok)
    \/ \E ok \in BOOLEAN : ImportActivate("p1", ok)

ScIdle ==
    /\ remote = {}
    /\ nextRemoteId = 1
    /\ workflowFiles = {}
    /\ run = [p \in Runs |-> RunIdle]
    /\ scLog = <<>>


WebhooksNext ==
    \/ \E p \in Runs, ok \in BOOLEAN : WebhookStart(p, ok)
    \/ \E p \in Runs, ok \in BOOLEAN : WebhookList(p, ok)
    \/ \E p \in Runs, ok \in BOOLEAN : WebhookStep(p, ok)

AgentsNext ==
    \/ \E p \in Runs, ok \in BOOLEAN : AgentStart(p, ok)
    \/ \E p \in Runs, ok \in BOOLEAN : AgentStep(p, ok)

(***************************************************************************)
(* Gateway: POST /extract                                                   *)
(***************************************************************************)

\* EXTRACTION_CONFIGS: the fields of each document type, key and type
Field(key, type) == [key |-> key, type |-> type]
EXTRACTION_CONFIGS ==
    [k \in {"fnol", "medical", "estimate", "police", "invoice", "insurance_claim"} |->
      CASE k = "fnol" ->
           <<Field("claimantName", "string"), Field("dateOfLoss", "date"),
           Field("timeOfLoss", "string"), Field("incidentLocation", "string"),
           Field("incidentDescription", "string"), Field("lossType", "string"),
           Field("policyNumber", "string"), Field("contactPhone", "string"),
           Field("contactEmail", "string"), Field("injuriesReported", "string"),
           Field("injuryDescription", "string"), Field("policeReportFiled", "string"),
           Field("policeReportNumber", "string"), Field("otherParties", "string"),
           Field("witnesses", "string"), Field("estimatedDamage", "string"),
           Field("vehicleYear", "string"), Field("vehicleMake", "string"),
           Field("vehicleModel", "string"), Field("vehicleVIN", "string")>>
        [] k = "medical" ->
           <<Field("patientName", "string"), Field("dateOfService", "date"),
           Field("providerName", "string"), Field("facilityName", "string"),
           Field("providerType", "string"), Field("chiefComplaint", "string"),
           Field("diagnoses", "string"), Field("icd10Codes", "string"),
           Field("treatmentProvided", "string"), Field("procedures", "string"),
           Field("cptCodes", "string"), Field("medications", "string"),
           Field("followUpInstructions", "string"), Field("workRestrictions", "string"),
           Field("prognosis", "string"), Field("totalCharges", "string"),
           Field("accidentRelated", "string")>>
        [] k = "estimate" ->
           <<Field("estimateProvider", "string"), Field("estimateDate", "date"),
           Field("estimateNumber", "string"), Field("vehicleInfo", "string"),
           Field("lineItems", "string"), Field("partsTotal", "string"),
           Field("laborTotal", "string"), Field("laborHours", "string"),
           Field("laborRate", "string"), Field("materialsTotal", "string"),
           Field("subletTotal", "string"), Field("tax", "string"),
           Field("grandTotal", "string"), Field("repairVsReplace", "string"),
           Field("isSupplemental", "string")>>
        [] k = "police" ->
           <<Field("reportNumber", "string"), Field("reportDate", "date"),
           Field("incidentDateTime", "string"), Field("incidentLocation", "string"),
           Field("officerName", "string"), Field("badgeNumber", "string"),
           Field("agencyName", "string"), Field("involvedParties", "string"),
           Field("vehicles", "string"), Field("narrative", "string"),
           Field("citations", "string"), Field("faultDetermination", "string"),
           Field("injuries", "string"), Field("witnesses", "string"),
           Field("damageDescription", "string"), Field("weatherConditions", "string"),
           Field("roadConditions", "string"), Field("diagramIncluded", "string")>>
        [] k = "invoice" ->
           <<Field("vendorName", "string"), Field("vendorAddress", "string"),
           Field("invoiceNumber", "string"), Field("invoiceDate", "date"),
           Field("dueDate", "date"), Field("serviceDescription", "string"),
           Field("lineItems", "string"), Field("subtotal", "string"),
           Field("tax", "string"), Field("totalAmount", "string"),
           Field("paymentTerms", "string"), Field("claimReference", "string")>>
        [] OTHER ->
           <<Field("claimantName", "string"), Field("policyNumber", "string"),
           Field("claimType", "string"), Field("dateOfIncident", "date"),
           Field("incidentLocation", "string"), Field("incidentDescription", "string"),
           Field("estimatedAmount", "string"), Field("contactPhone", "string"),
           Field("contactEmail", "string"), Field("contactAddress", "string"),
           Field("injuriesReported", "string"), Field("propertyDamage", "string"),
           Field("thirdParties", "string"), Field("witnesses", "string"),
           Field("policeReportFiled", "string"), Field("reportNumber", "string"),
           Field("supportingDocuments", "string"), Field("claimStatus", "string")>>]

\* a || b
JsOr(a, b) == IF Truthy(a) THEN a ELSE b

\* EXTRACTION_CONFIGS[extractionType]: the key is ToString(extractionType),
\* and a lookup that misses the own properties goes on to Object.prototype
ConfigLookup(extractionType) ==
    LET key == ToStr(extractionType) IN
    IF key \in DOMAIN EXTRACTION_CONFIGS THEN [t |-> "config", v |-> key]
    ELSE IF key \in DOMAIN ObjectPrototype THEN ObjectPrototype[key]
    ELSE JsUndefined

\* (mutant) the type of a field is sent as it is
SentTypeAsIs(type) == type

\* f.type === 'date' ? 'string' : f.type
SentType(type) == IF type = "date" THEN "string" ELSE type

\* config.fields.map(...): key and type of the fields the vendor is asked for
SentFields(fields) == [i \in DOMAIN fields |-> Field(fields[i].key, SentType(fields[i].type))]

\* what the vendor does with a call: it answers every key it was asked for
\* ("all"), the first two ("some"), or none, or the call throws ("error")
VendorAnswer(outcome, fields) ==
    CASE outcome = "all" -> {fields[i].key : i \in DOMAIN fields}
      [] outcome = "some" -> {fields[i].key : i \in DOMAIN fields \cap 1..2}
      [] OTHER -> {}

\* a response of the route
ExNone == [status |-> 0, success |-> "-", fileId |-> JsUndefined,
           extractionType |-> JsUndefined, timestamp |-> FALSE, data |-> {},
           error |-> "-"]
ExError(status, success, error) ==
    [ExNone EXCEPT !.status = status, !.success = success, !.error = error]

\* (mutant) a vendor call that throws is made once more
CallVendorWithRetry(calls, call, outcome) ==
    IF outcome = "error" THEN Append(Append(calls, call), call) ELSE Append(calls, call)

\* await boxClient.post('/ai/extract_structured', ...): one call
CallVendor(calls, call, outcome) == Append(calls, call)


\* app.post('/extract')
ExtractRequest(body, outcome) ==
    LET fileId == JsOr(body.fileId, body.file_id)
        extractionType == JsOr(body.extractionType, body.extraction_type)
    IN  /\ exReq' = [body |-> body, vendor |-> outcome]
        /\ IF ~Truthy(fileId)
           THEN /\ exResp' = ExError(400, "-", "fileId is required")
                /\ exVendor' = <<>>
                /\ UNCHANGED gwBoxClient
           ELSE IF ~Truthy(extractionType) \/ ~Truthy(ConfigLookup(extractionType))
           THEN /\ exResp' = ExError(400, "-", "Invalid extractionType")
                /\ exVendor' = <<>>
                /\ UNCHANGED gwBoxClient
           ELSE IF ~gwBoxClient /\ ~gwBoxConfigOk
           THEN \* initializeBoxClient throws
                /\ exResp' = ExError(500, "false", "configuration")
                /\ exVendor' = <<>>
                /\ UNCHANGED gwBoxClient
           ELSE IF ConfigLookup(extractionType).t # "config"
           THEN \* config.fields is undefined: config.fields.map throws
                /\ gwBoxClient' = TRUE
                /\ exResp' = ExError(500, "false", "TypeError")
                /\ exVendor' = <<>>
           ELSE LET fields == SentFields(EXTRACTION_CONFIGS[ConfigLookup(extractionType).v])
                    call == [fileId |-> fileId, fields |-> fields]
                IN  /\ gwBoxClient' = TRUE
                    /\ exVendor' = CallVendor(<<>>, call, outcome)
                    /\ exResp' =
                          IF outcome = "error"
                          THEN ExError(500, "false", "Box API error")
                          ELSE [ExNone EXCEPT !.status = 200, !.success = "true",
                                              !.fileId = fileId,
                                              !.extractionType = extractionType,
                                              !.timestamp = TRUE,
                                              !.data = VendorAnswer(outcome, fields)]
        /\ UNCHANGED gwBoxConfigOk
        /\ UNCHANGED <<pxVars, gwVars, poVars, tkVars, scVars>>

ExInit ==
    /\ gwBoxConfigOk \in BOOLEAN
    /\ gwBoxClient = FALSE
    /\ exReq = [body |-> [fileId |-> JsUndefined, file_id |-> JsUndefined,
                         extractionType |-> JsUndefined, extraction_type |-> JsUndefined],
                vendor |-> "none"]
    /\ exResp = ExNone
    /\ exVendor = <<>>

ExIdle ==
    /\ gwBoxConfigOk = TRUE
    /\ gwBoxClient = FALSE
    /\ exReq = [body |-> [fileId |-> JsUndefined, file_id |-> JsUndefined,
                         extractionType |-> JsUndefined, extraction_type |-> JsUndefined],
                vendor |-> "none"]
    /\ exResp = ExNone
    /\ exVendor = <<>>

RestIdle == TkStill /\ ScIdle /\ ExIdle

\* the request bodies: fileId, file_id, extractionType, extraction_type
ExtractNext ==
    \E body \in
          [fileId : {JsUndefined, JsString(""), JsString("123")},
           file_id : {JsUndefined, JsString("456")},
           extractionType : {JsUndefined, JsString(""), JsString("other"),
                             JsString("constructor"), JsString("__proto__"),
                             JsArray1("fnol")}
                            \cup {JsString(k) : k \in DOMAIN EXTRACTION_CONFIGS},
           extraction_type : {JsUndefined, JsString("medical")}],
       o \in {"all", "some", "none", "error"} :
        ExtractRequest(body, o)

\* the task desk: the claims are stored, the admin completes tasks (request
\* r1) while a status update (request r2) is in flight
TasksNext ==
    \/ AdminLogin("admin@suresafe.com", "admin123")
    \/ \E id \in 1..MaxClaims + 1, s \in StatusInputs \ {Undefined} :
          AdminStatusRead("r2", id, s)
    \/ \E ok \in BOOLEAN : AdminStatusWrite("r2", ok)
    \/ \E id \in 1..MaxClaims, v \in DecisionInputs : TaskCompleteRemote("r1", id, v)
    \/ \E id \in 1..MaxClaims + 1, v \in DecisionInputs :
          TaskCompleteFallbackRead("r1", id, v)
    \/ \E ok \in BOOLEAN, persist \in BOOLEAN : TaskCompleteWrite("r1", ok, persist)

(***************************************************************************)
(* Specifications                                                           *)
(***************************************************************************)
vars == <<pxVars, gwVars, poVars, restVars>>

InitProxy == PxInit /\ GwIdle /\ PoIdle /\ RestIdle
SpecProxy == InitProxy /\ [][PxNext]_vars

InitGateway == GwInit /\ PxInit /\ PoIdle /\ RestIdle
SpecGateway == InitGateway /\ [][GwNext]_vars

InitPortal == PoInit /\ PxInit /\ GwIdle /\ RestIdle
SpecSubmit == InitPortal /\ [][SubmitNext]_vars

\* the portal's access to the workflow engine
InitToken ==
    /\ TkInit /\ ScIdle /\ ExIdle /\ PxInit /\ GwIdle /\ PoIdle
SpecToken == InitToken /\ [][TokenNext]_vars

\* runs of the webhook script, and of the agent script
\* the remote service holds nothing of the application, or a webhook of
\* another folder
InitWebhooks ==
    /\ remote \in {{}, {RemoteObject(0, "0", {"FILE.UPLOADED"}, "-")}}
    /\ nextRemoteId = 1
    /\ workflowFiles = {}
    /\ run = [p \in Runs |-> RunIdle]
    /\ scLog = <<>>
    /\ TkStill /\ ExIdle /\ PxInit /\ GwIdle /\ PoIdle
SpecWebhooks == InitWebhooks /\ [][WebhooksNext]_vars

InitAgents ==
    /\ ScIdle /\ TkStill /\ ExIdle /\ PxInit /\ GwIdle /\ PoIdle
SpecAgents == InitAgents /\ [][AgentsNext]_vars

\* a run of the workflow import
\* all five files are there or the second is missing; the automation tool
\* holds no workflow or the one of the first file
InitImport ==
    /\ remote \in {{}, {RemoteObject(0, "-", {}, WORKFLOW_FILES[1])}}
    /\ nextRemoteId = 1
    /\ workflowFiles \in {1..Len(WORKFLOW_FILES), (1..Len(WORKFLOW_FILES)) \ {2}}
    /\ run = [p \in Runs |-> RunIdle]
    /\ scLog = <<>>
    /\ TkStill /\ ExIdle /\ PxInit /\ GwIdle /\ PoIdle
SpecImport == InitImport /\ [][ImportNext]_vars

\* the gateway's extraction route
InitExtract ==
    /\ ExInit /\ TkStill /\ ScIdle /\ PxInit /\ GwIdle /\ PoIdle
SpecExtract == InitExtract /\ [][ExtractNext]_vars

\* the portal after MaxClaims submissions without attachments that fell back
\* to demo mode, no Box client configured
PoSubmitted ==
    /\ boxClient = FALSE
    /\ users = SeedUsers
    /\ reply = [NoReply EXCEPT !.route = "login", !.email = "john.smith@email.com",
                               !.password = "demo123", !.resp = 200]
    /\ session = [user |-> "john.smith@email.com", adminUser |-> NoUser]
    /\ db = [id \in 1..MaxClaims |->
               [NewClaimRow([SubIdle EXCEPT !.user = "john.smith@email.com"])
                   EXCEPT !.processInstanceKey = DemoKey, !.workflowStatus = "DEMO"]]
    /\ nextId = MaxClaims + 1
    /\ boxFolders = {}
    /\ boxFiles = {}
    /\ sub = [SubIdle EXCEPT !.pc = "done", !.id = MaxClaims,
                             !.user = "john.smith@email.com", !.resp = 200,
                             !.log = <<Call("insert", 0, TRUE), Call("camunda", 0, FALSE),
                                       Call("update-demo", 0, TRUE)>>]
    /\ adm = [r \in AdminRequests |-> AdmIdle]
    /\ admCalls = 0
InitTasks ==
    /\ PoSubmitted /\ PxInit /\ GwIdle /\ RestIdle
SpecTasks == InitTasks /\ [][TasksNext]_vars

\* the admin desk runs on a portal started without a Box configuration
InitAdmin == PoIdle /\ PxInit /\ GwIdle /\ RestIdle
SpecAdmin == InitAdmin /\ [][AdminNext]_vars
SpecMember == InitAdmin /\ [][MemberNext]_vars
SpecWrites == InitAdmin /\ [][WritesNext]_vars
SpecPortal == InitAdmin /\ [][PortalNext]_vars

\* the session routes: logins with right and wrong credentials, logouts and
\* the two who-am-I routes
SessionNext ==
    \/ \E c \in LoginInputs : Login(c[1], c[2])
    \/ \E c \in LoginInputs : AdminLogin(c[1], c[2])
    \/ Logout
    \/ AdminLogout
    \/ GetUser
    \/ GetAdminUser
SpecSession == InitAdmin /\ [][SessionNext]_vars

(***************************************************************************)
(* Claims about the reverse proxy                                           *)
(***************************************************************************)

\* the eleven documented routes, as the specification lists them
DocumentedRoute(name) ==
    CASE name \in {"METADATA_INSTANCE.CREATED", "METADATA_INSTANCE.UPDATED",
                   "METADATA_INSTANCE.DELETED"} -> "box-metadata"
      [] name \in {"TASK_ASSIGNMENT.CREATED", "TASK_ASSIGNMENT.UPDATED"} -> "box-tasks"
      [] name \in {"SIGN_REQUEST.COMPLETED", "SIGN_REQUEST.DECLINED",
                   "SIGN_REQUEST.EXPIRED"} -> "box-sign"
      [] name \in {"COLLABORATION.CREATED", "COLLABORATION.REMOVED"} -> "box-collab"
      [] name = "FILE.UPLOADED" -> "box-file-upload"
      [] OTHER -> Undefined

PxDispatched == pxReq.method = "POST" /\ pxReq.path = DispatcherPath

\* C1: a POST to /webhook/box-file-upload is forwarded to /webhook/<route> when
\* its trigger is one of the eleven known names, and with its URL unchanged for
\* any other trigger value or no trigger.
C1_RewriteExactlyKnownTriggers ==
    PxDispatched =>
        IF pxReq.trigger.t = "string" /\ DocumentedRoute(pxReq.trigger.v) # Undefined
        THEN pxUrl = "/webhook/" \o DocumentedRoute(pxReq.trigger.v)
        ELSE pxUrl = pxReq.path

(***************************************************************************)
(* Claims about the webhook receiver                                        *)
(***************************************************************************)

WhAnswered == whStatus # 0

\* the HMAC the receiver computes over the body it parsed
WhExpected == Hmac(gwKey, JSONstringify(JSONparse(whReq.raw)))

\* C4: a request whose signature header differs from the computed HMAC is
\* answered 401 and nothing is processed; with the primary key unset every
\* request is accepted, whatever its signature header.
C4_MismatchRejected ==
    WhAnswered =>
        /\ (gwKey \notin {Undefined, ""} /\ whReq.sig # HeaderValue(Undefined)
                /\ whReq.sig # WhExpected)
              => (whStatus = 401 /\ whForward = NoPayload)
        /\ gwKey = Undefined => whStatus # 401

\* C5: with a primary key configured an event is forwarded only for a request
\* whose signature header equals the HMAC of the body under that key.
C5_ForwardOnlyIfSigned ==
    (WhAnswered /\ gwKey \notin {Undefined, ""} /\ whForward # NoPayload)
        => whReq.sig = WhExpected

(***************************************************************************)
(* Claims about claim submission (SpecSubmit)                               *)
(***************************************************************************)

\* the positions of the calls of one kind in the submission's log
SubCalls(op) == {i \in DOMAIN sub.log : sub.log[i].op = op}
SubOk(op) == \E i \in SubCalls(op) : sub.log[i].ok
SubFailed(op) == \E i \in SubCalls(op) : ~sub.log[i].ok

Min(S) == CHOOSE x \in S : \A y \in S : x <= y

\* the files uploaded with success before position i of the log
UploadedBefore(i) ==
    {sub.log[j].file : j \in {k \in SubCalls("upload") : k < i /\ sub.log[k].ok}}

\* the files the upload loop tried, and those it uploaded, in the order of the log
UploadAttempts ==
    LET u == SelectSeq(sub.log, LAMBDA c : c.op = "upload")
    IN  [i \in 1..Len(u) |-> u[i].file]
UploadSuccesses ==
    LET u == SelectSeq(sub.log, LAMBDA c : c.op = "upload" /\ c.ok)
    IN  [i \in 1..Len(u) |-> u[i].file]

SubRowStored == sub.id \in DOMAIN db
SubLoopOver == sub.pc \in {"extract", "insert", "camunda", "updStarted", "updDemo", "done"}

\* C2 as stated: at most one extraction call per submission, and it names the
\* first file in submission order, whatever the upload outcomes.
C2_ExtractionOnFirstSubmitted ==
    /\ Cardinality(SubCalls("extract")) <= 1
    /\ \A i \in SubCalls("extract") : sub.log[i].file = 1

\* C2 amended: at most one extraction call per submission, and it names the
\* first file, in submission order, whose upload succeeded.
C2_ExtractionOnFirstUploaded ==
    /\ Cardinality(SubCalls("extract")) <= 1
    /\ \A i \in SubCalls("extract") :
          /\ UploadedBefore(i) # {}
          /\ sub.log[i].file = Min(UploadedBefore(i))

\* the extraction call was made after the first file failed and a later one
\* was uploaded
C2_Witness ==
    /\ sub.pc = "done"
    /\ \E i \in SubCalls("extract") : sub.log[i].file = 2
    /\ \E j \in SubCalls("upload") : sub.log[j].file = 1 /\ ~sub.log[j].ok

\* the place of a call in the documented sequence
StepRank(op) ==
    CASE op = "folder" -> 1 [] op = "relay" -> 2 [] op = "upload" -> 3
      [] op = "extract" -> 4 [] op = "insert" -> 5 [] op = "camunda" -> 6
      [] OTHER -> 7

\* C6: the external steps of a submission run in sequence, folder creation,
\* file uploads, extraction, database insert, workflow start, each at most
\* once (one upload per file), and the workflow start is issued only after the
\* row was inserted.
C6_StepsInSequence ==
    /\ \A i, j \in DOMAIN sub.log :
          i < j => StepRank(sub.log[i].op) <= StepRank(sub.log[j].op)
    /\ \A op \in {"folder", "extract", "insert", "camunda"} :
          Cardinality(SubCalls(op)) <= 1
    /\ \A i, j \in SubCalls("upload") : i < j => sub.log[i].file < sub.log[j].file
    /\ \A i \in SubCalls("camunda") :
          /\ \E j \in SubCalls("insert") : j < i /\ sub.log[j].ok
          /\ SubRowStored

\* a submission that made all five steps
C6_Witness ==
    /\ sub.pc = "done"
    /\ \A op \in {"folder", "upload", "extract", "insert", "camunda"} : SubCalls(op) # {}

\* C7 as stated: when the workflow-start call fails, the claim is stored with
\* the placeholder key and DEMO and the submission answers success; every
\* submission that answers success leaves workflowStatus in {STARTED, DEMO}.
C7_FallbackAlwaysSucceeds ==
    /\ Cardinality(SubCalls("camunda")) <= 1
    /\ (sub.pc = "done" /\ SubFailed("camunda")) =>
          /\ sub.resp = 200
          /\ db[sub.id].workflowStatus = "DEMO"
          /\ db[sub.id].processInstanceKey = DemoKey
    /\ (sub.pc = "done" /\ sub.resp = 200) =>
          db[sub.id].workflowStatus \in {"STARTED", "DEMO"}

\* C7 amended: the failed workflow-start call is not retried; the fallback
\* update is attempted, and when it succeeds the claim is stored with the
\* placeholder key and DEMO and the submission answers success, when it fails
\* the submission answers 500; every submission that answers success leaves
\* workflowStatus in {STARTED, DEMO}.
C7_FallbackUnlessUpdateFails ==
    /\ Cardinality(SubCalls("camunda")) <= 1
    /\ (sub.pc = "done" /\ SubFailed("camunda")) =>
          /\ SubCalls("update-demo") # {}
          /\ SubOk("update-demo") =>
                /\ sub.resp = 200
                /\ db[sub.id].workflowStatus = "DEMO"
                /\ db[sub.id].processInstanceKey = DemoKey
          /\ SubFailed("update-demo") => sub.resp = 500
    /\ (sub.pc = "done" /\ sub.resp = 200) =>
          db[sub.id].workflowStatus \in {"STARTED", "DEMO"}

\* the workflow start failed and the submission answered success in demo mode
C7_Witness ==
    /\ sub.pc = "done" /\ SubFailed("camunda")
    /\ sub.resp = 200
    /\ db[sub.id].workflowStatus = "DEMO"

\* C8 as stated: when folder creation fails, no upload and no extraction is
\* made, the row is inserted with no folder id, no documents and a null
\* extraction, and the workflow start is attempted.
C8_FolderFailureContinues ==
    SubFailed("folder") =>
        /\ SubCalls("upload") = {} /\ SubCalls("extract") = {}
        /\ sub.pc = "done" =>
              /\ SubRowStored
              /\ db[sub.id].boxFolderId = 0
              /\ db[sub.id].documents = <<>>
              /\ db[sub.id].aiExtraction = "null"
              /\ SubCalls("camunda") # {}

\* C8 amended: when folder creation fails, no upload and no extraction is
\* made, the insert is still attempted, the row it stores has no folder id, no
\* documents and a null extraction, and when the insert succeeds the workflow
\* start is attempted.
C8_FolderFailureReachesInsert ==
    SubFailed("folder") =>
        /\ SubCalls("upload") = {} /\ SubCalls("extract") = {}
        /\ sub.pc = "done" => SubCalls("insert") # {}
        /\ SubRowStored <=> SubOk("insert")
        /\ SubRowStored =>
              /\ db[sub.id].boxFolderId = 0
              /\ db[sub.id].documents = <<>>
              /\ db[sub.id].aiExtraction = "null"
              /\ sub.pc = "done" => SubCalls("camunda") # {}

\* a submission with files whose folder creation failed, stored and started
C8_Witness ==
    /\ sub.pc = "done" /\ SubFailed("folder") /\ sub.n > 0
    /\ SubRowStored /\ SubCalls("camunda") # {}

\* C9: every submitted file is tried, in submission order, whatever happened
\* to the files before it, and the stored documents are the uploaded files in
\* submission order.
C9_UploadsIndependent ==
    /\ UploadAttempts = [i \in 1..Len(UploadAttempts) |-> i]
    /\ sub.docs = UploadSuccesses
    /\ (SubLoopOver /\ SubOk("folder")) => Len(UploadAttempts) = sub.n
    /\ SubRowStored => db[sub.id].documents = UploadSuccesses

\* a stored claim whose first upload failed and whose last upload succeeded
C9_Witness ==
    /\ sub.pc = "done" /\ SubRowStored /\ sub.n >= 2
    /\ \E i \in SubCalls("upload") : sub.log[i].file = 1 /\ ~sub.log[i].ok
    /\ db[sub.id].documents # <<>>
    /\ db[sub.id].documents[Len(db[sub.id].documents)] = sub.n

\* C10: no step of a submission removes the folder or a file created earlier
\* in it: they exist in every later state, also after a later step failed.
C10_NoCompensation ==
    /\ SubOk("folder") => sub.id \in boxFolders
    /\ \A i \in SubCalls("upload") : sub.log[i].ok => <<sub.id, sub.log[i].file>> \in boxFiles
    /\ \A id \in DOMAIN db :
          /\ db[id].boxFolderId # 0 => db[id].boxFolderId \in boxFolders
          /\ \A k \in DOMAIN db[id].documents :
                <<db[id].boxFolderId, db[id].documents[k]>> \in boxFiles

\* a submission that failed at the insert after it made a folder and a file
C10_Witness ==
    /\ sub.pc = "done" /\ sub.resp = 500 /\ SubFailed("insert")
    /\ sub.id \in boxFolders
    /\ \E f \in 1..sub.n : <<sub.id, f>> \in boxFiles

(***************************************************************************)
(* Claims about the status-changing calls (SpecAdmin)                       *)
(***************************************************************************)

\* the stored status equals the status of the head of the stored history
StatusAgreesWithHead(id) ==
    /\ db[id].statusHistory # <<>>
    /\ db[id].status = db[id].statusHistory[1].status

\* C3: once a status-changing call on a claim (submission, admin status
\* update, fallback task completion) was answered with success, the claim's
\* stored status equals the status of the head of its stored statusHistory.
C3_StatusAgreesWithHead ==
    /\ (sub.pc = "done" /\ sub.resp = 200) => StatusAgreesWithHead(sub.id)
    /\ \A r \in AdminRequests :
          (adm[r].pc = "done" /\ adm[r].resp = 200 /\ adm[r].claim # 0
                                /\ adm[r].kind # "remote")
              => StatusAgreesWithHead(adm[r].claim)

(***************************************************************************)
(* Claims about task completion (SpecTasks)                                 *)
(***************************************************************************)

\* the documented decision table
DecisionTable ==
    [d \in {"approve", "approved", "CLEARED", "deny", "FRAUD_CONFIRMED", "escalate",
            "request_more_docs"} |->
        CASE d \in {"approve", "approved", "CLEARED"} -> "Approved"
          [] d \in {"deny", "FRAUD_CONFIRMED"} -> "Denied"
          [] d = "escalate" -> "Escalated"
          [] d = "request_more_docs" -> "Pending Documents"]

DecisionFields(v) ==
    <<v.adjusterDecision, v.reviewDecision, v.managerDecision, v.investigationOutcome>>

\* the first field that is present, whatever its value
FirstPresent(v) ==
    LET f == DecisionFields(v)
        I == {i \in 1..4 : f[i] # Undefined}
    IN  IF I = {} THEN Undefined ELSE f[Min(I)]

\* the first field whose value is a non-empty string
FirstNonEmpty(v) ==
    LET f == DecisionFields(v)
        I == {i \in 1..4 : f[i] # Undefined /\ f[i] # ""}
    IN  IF I = {} THEN Undefined ELSE f[Min(I)]

\* request r ends a fallback completion in this step
FallbackEnds(r) == adm[r].pc = "read" /\ adm[r].kind = "task" /\ adm'[r].pc = "done"

CompletionAnswered(r) ==
    /\ adm'[r] # adm[r]
    /\ adm'[r].pc = "done" /\ adm'[r].resp = 200
    /\ adm'[r].kind \in {"remote", "task"}
    /\ adm'[r].claim \in DOMAIN db

\* the variables that request came with
CompletionVariables(r) ==
    IF adm'[r].kind = "remote" THEN adm'[r].variables ELSE adm[r].variables

\* C12: when a task completion for a claim is answered with success, by the
\* remote engine or by the demo fallback, and its decision is one of the
\* table, the claim's stored status is the status of that decision.
C12_CompletionUpdatesStatus ==
    [][\A r \in AdminRequests : CompletionAnswered(r) =>
          LET d == FirstNonEmpty(CompletionVariables(r))
          IN  d \in DOMAIN DecisionTable
                 => db'[adm'[r].claim].status = DecisionTable[d]]_vars

(***************************************************************************)
(* Claims about the status history (SpecTasks)                              *)
(***************************************************************************)

\* every entry of the old history is kept, in place, behind the new entries
KeptIn(old, new) ==
    /\ Len(new) >= Len(old)
    /\ SubSeq(new, Len(new) - Len(old) + 1, Len(new)) = old

\* request r stores its status change in this step and is answered success
ChangeStored(r) ==
    /\ adm[r].pc = "read" /\ adm'[r].pc = "done" /\ adm'[r].resp = 200
    /\ db' # db

\* C13: every entry stored in a claim's statusHistory is in every later
\* stored value of it, and a status-changing call that stores its change
\* makes the stored history one entry longer, in every interleaving of the
\* reads and writes of two admin calls on the claim.
C13_HistoryAppendOnly ==
    [][/\ \A id \in DOMAIN db : KeptIn(db[id].statusHistory, db'[id].statusHistory)
       /\ \A r \in AdminRequests : ChangeStored(r) =>
             Len(db'[adm[r].claim].statusHistory)
                = Len(db[adm[r].claim].statusHistory) + 1]_vars

(***************************************************************************)
(* Claims about the token cache (SpecToken)                                 *)
(***************************************************************************)

\* the expiry a token answer stands for
ResponseExpiry(data) ==
    IF data.expires_in = UndefinedValue THEN NaN
    ELSE data.at + data.expires_in * 1000 - 60000

\* the cache is empty, or its token and its expiry are those of one answer
CacheFromOneResponse ==
    \/ camundaAccessToken = NullValue /\ camundaTokenExpiry = NullValue
    \/ \E i \in DOMAIN tokenResponses :
          /\ camundaAccessToken = tokenResponses[i].access_token
          /\ camundaTokenExpiry = ResponseExpiry(tokenResponses[i])

GrantedTokens ==
    {tokenResponses[i].access_token : i \in DOMAIN tokenResponses} \ {UndefinedValue}

\* request q went on to its engine call
PastToken(q) == tk[q].pc \in {"call", "done"}

\* C14 (as stated): with OAuth configured, in every interleaving the cached
\* token and expiry are those of one token answer, and every request goes to
\* the engine with a token that a token answer returned.
C14_EveryRequestHasToken ==
    oauthConfigured =>
       /\ CacheFromOneResponse
       /\ \A q \in EngineRequests : PastToken(q) => tk[q].token \in GrantedTokens

\* request q leaves its token fetch in this step
FetchEnds(q) == tk[q].pc = "fetch" /\ tk'[q].pc = "call"

\* C14 (amended): with OAuth configured, in every interleaving the cached
\* token and expiry are those of one token answer, there are no more token
\* answers than requests, and every request goes to the engine with a token
\* that a token answer returned, or with none; it has none only when its own
\* token fetch threw or was answered without an access_token.
C14_TokenOrFailedFetch ==
    /\ [](oauthConfigured =>
            /\ CacheFromOneResponse
            /\ Len(tokenResponses) <= tkCalls
            /\ \A q \in EngineRequests : PastToken(q) =>
                  tk[q].token \in GrantedTokens \cup {NullValue, UndefinedValue})
    /\ [][\A q \in EngineRequests :
             /\ (tk[q].pc \in {"idle", "done"} /\ tk'[q].pc = "call" /\ oauthConfigured)
                   => tk'[q].token \in GrantedTokens
             /\ (FetchEnds(q) /\ tk'[q].token = NullValue)
                   => tokenResponses' = tokenResponses
             /\ (FetchEnds(q) /\ tk'[q].token = UndefinedValue)
                   => /\ Len(tokenResponses') = Len(tokenResponses) + 1
                      /\ tokenResponses'[Len(tokenResponses')].access_token
                            = UndefinedValue]_vars

\* two requests found the cache empty, both fetched a token, and each went
\* to the engine with its own; the cache holds the pair of one of them
C14_Witness ==
    /\ oauthConfigured /\ now = StartTime /\ tkCalls = 2
    /\ Len(tokenResponses) = 2 /\ tokenResponses[1].expires_in = 180
    /\ tk["q1"].pc = "done" /\ tk["q2"].pc = "done"
    /\ tk["q1"].bearer > 0 /\ tk["q2"].bearer > 0
    /\ tk["q1"].bearer # tk["q2"].bearer
    /\ camundaAccessToken \in {tk["q1"].bearer, tk["q2"].bearer}

(***************************************************************************)
(* Claims about the provisioning scripts                                    *)
(***************************************************************************)

\* the calls of run p, as positions of scLog
CallsOf(p) == {i \in DOMAIN scLog : scLog[i].run = p}
CreatesOf(p) == {i \in CallsOf(p) : scLog[i].op = "create"}

\* run q went through all its definitions and created every one of them
FullySuccessful(q, list) ==
    /\ run[q].pc = "done"
    /\ Len(run[q].results) = DefsOf(list)
    /\ \A i \in DOMAIN run[q].results : run[q].results[i] = "created"

\* run p was started after the last call of run q
StartedAfter(p, q) ==
    /\ CallsOf(p) # {}
    /\ \A i \in CallsOf(p), j \in CallsOf(q) : j < i

\* C15: a run of the agent script that is started after a fully successful
\* run issues no create call, and no two remote agents have the same name.
C15_SecondRunCreatesNothing ==
    \A p \in Runs : \A q \in Runs \ {p} :
       (FullySuccessful(q, AI_AGENTS) /\ StartedAfter(p, q)) =>
           /\ CreatesOf(p) = {}
           /\ \A a \in remote, b \in remote : a.name = b.name => a.id = b.id

\* run p takes a turn of its loop in this step
LoopTurn(p) == run[p].pc = "loop" /\ run'[p] # run[p]

\* ... and the turn is a create call
CreateCalled(p) ==
    /\ Len(scLog') = Len(scLog) + 1
    /\ scLog'[Len(scLog')].run = p
    /\ scLog'[Len(scLog')].op = "create"

\* the webhooks that stand for definition idx
WebhooksFor(set, idx) ==
    {w \in set : w.target = WEBHOOKS[idx].target /\ w.triggers = WEBHOOKS[idx].triggers}

\* C16: a run of the webhook script issues the create call for a definition
\* exactly when the list it read before its loop holds no webhook of the same
\* folder with an overlapping trigger, whatever the remote service holds by
\* then, and a create call that succeeds adds a remote webhook; so two runs
\* that both list before either creates both create a webhook for the same
\* definition (C16_Witness).
C16_CreateDecidedByOwnList ==
    [][\A p \in Runs : LoopTurn(p) =>
          LET idx == run[p].idx
              listed == \E w \in run[p].listing :
                           /\ w.target = WEBHOOKS[idx].target
                           /\ w.triggers \cap WEBHOOKS[idx].triggers # {}
          IN  /\ CreateCalled(p) <=> ~listed
              /\ (CreateCalled(p) /\ scLog'[Len(scLog')].ok) =>
                    Cardinality(WebhooksFor(remote', idx))
                       = Cardinality(WebhooksFor(remote, idx)) + 1]_vars

\* both runs listed before either created, both created a webhook for the
\* first definition, and the remote service holds the two
C16_Witness ==
    /\ \A p \in Runs : \E i \in CallsOf(p) :
          /\ scLog[i].op = "list" /\ scLog[i].ok
          /\ \A q \in Runs : \A j \in CreatesOf(q) : i < j
    /\ \A p \in Runs : \E j \in CreatesOf(p) : scLog[j].def = 1 /\ scLog[j].ok
    /\ Cardinality(WebhooksFor(remote, 1)) = 2

\* the calls of the import for a file
ImportCalls(file, ops) ==
    {i \in DOMAIN scLog : scLog[i].def = file /\ scLog[i].op \in ops}

\* C17: when the import run is over, every file that exists and whose list
\* call and create or update call were answered has exactly one create or
\* update call (update exactly when a remote workflow had its name) followed
\* by an activation call, and every workflow reported as successful has been
\* activated.
C17_ReportedSuccessIsActivated ==
    run["p1"].pc = "done" =>
       /\ \A f \in workflowFiles :
             (\E i \in ImportCalls(f, {"create", "update"}) : scLog[i].ok) =>
                /\ Cardinality(ImportCalls(f, {"create", "update"})) = 1
                /\ Cardinality(ImportCalls(f, {"activate"})) = 1
                /\ \A i \in ImportCalls(f, {"create", "update"}) :
                      \A j \in ImportCalls(f, {"activate"}) : i < j
       /\ \A k \in DOMAIN run["p1"].results :
             run["p1"].results[k].status = "success" =>
                \E j \in ImportCalls(run["p1"].results[k].file, {"activate"}) : scLog[j].ok

(***************************************************************************)
(* Claims about POST /extract (SpecExtract)                                 *)
(***************************************************************************)

ExAnswered == exResp.status # 0

\* the file id and the document type the request names, in either spelling
ExFileId == IF exReq.body.fileId.t # "undefined" /\ exReq.body.fileId.v # ""
            THEN exReq.body.fileId ELSE exReq.body.file_id
ExType == IF exReq.body.extractionType.t # "undefined" /\ exReq.body.extractionType.v # ""
          THEN exReq.body.extractionType ELSE exReq.body.extraction_type

\* the six document-type keys
DocumentTypes == {"fnol", "medical", "estimate", "police", "invoice", "insurance_claim"}

ExFileIdGiven == ExFileId.t = "string" /\ ExFileId.v # ""
ExTypeKnown == ExType.t = "string" /\ ExType.v \in DocumentTypes

\* C18: on a gateway whose Box configuration loads, a request is answered
\* 400, without a vendor call, exactly when its fileId is missing or its
\* extractionType is missing or not one of the six document-type keys.
C18_OnlySixTypesAccepted ==
    (ExAnswered /\ gwBoxConfigOk) =>
       /\ (~ExFileIdGiven \/ ~ExTypeKnown) => (exResp.status = 400 /\ exVendor = <<>>)
       /\ (ExFileIdGiven /\ ExTypeKnown) => exResp.status # 400

FnolKeys ==
    {"claimantName", "dateOfLoss", "timeOfLoss", "incidentLocation", "incidentDescription",
     "lossType", "policyNumber", "contactPhone", "contactEmail", "injuriesReported",
     "injuryDescription", "policeReportFiled", "policeReportNumber", "otherParties",
     "witnesses", "estimatedDamage", "vehicleYear", "vehicleMake", "vehicleModel",
     "vehicleVIN"}

PxProxied == Mount(pxReq.path) # "-"

\* the paths Express takes for the dispatcher route's path
DispatcherVariants ==
    {"/webhook/box-file-upload", "/webhook/box-file-upload/", "/Webhook/Box-File-Upload"}

\* C21 (as stated): a proxied request that is not a POST to the path
\* /webhook/box-file-upload itself is forwarded with its URL unmodified,
\* whatever its trigger.
C21_OnlyDispatcherPathRewritten ==
    (PxProxied /\ ~PxDispatched) => pxUrl = pxReq.path

\* C21 (amended): a proxied request that is not a POST to a path the
\* dispatcher route matches (/webhook/box-file-upload in any letter case, with
\* or without a trailing slash) is forwarded with its URL unmodified, whatever
\* its trigger.
C21_OnlyDispatcherRouteRewritten ==
    (PxProxied /\ ~(pxReq.method = "POST" /\ pxReq.path \in DispatcherVariants))
        => pxUrl = pxReq.path

\* a POST to another webhook path with a known trigger went through unchanged
C21_Witness ==
    /\ pxReq.method = "POST" /\ pxReq.path = "/webhook/box-sign"
    /\ pxReq.trigger = JsString("METADATA_INSTANCE.CREATED")
    /\ pxUrl = "/webhook/box-sign" /\ pxSends = 1

\* C22: a proxied request whose downstream connection failed is answered 502
\* with the error text, and was sent downstream once.
C22_Unreachable502 ==
    (PxProxied /\ pxStatus # 200) =>
        /\ pxStatus = 502
        /\ pxBody = "err.message"
        /\ pxSends = 1

(***************************************************************************)
(* Claims about the portal's tables (SpecWrites)                            *)
(***************************************************************************)

\* C23: the users table is the seeded one in every state, and in every step
\* every stored claim stays stored under its id with its owning user.
C23_ClaimsGrowUsersFixed ==
    /\ [](users = SeedUsers)
    /\ [][\A id \in DOMAIN db :
             /\ id \in DOMAIN db'
             /\ db'[id].userId = db[id].userId]_vars

\* a claim was stored, got a process key and had its status changed by an
\* admin, and the member has logged out since
C23_Witness ==
    /\ 1 \in DOMAIN db
    /\ db[1].status # "Submitted"
    /\ db[1].workflowStatus # "NOT_STARTED"
    /\ db[1].userId = "john.smith@email.com"
    /\ session.user = NoUser

(***************************************************************************)
(* Claims about authentication (SpecPortal)                                 *)
(***************************************************************************)

\* a submission arrives in this step
SubmissionArrives == sub.pc \in {"idle", "done"} /\ sub' # sub

\* a claim list, claim read or storage token request is answered in this step
MemberReadAnswered ==
    reply' # reply /\ reply'.route \in {"claims", "claim", "box/token"}

\* admin request r arrives in this step
AdminArrives(r) == adm[r].pc \in {"idle", "done"} /\ adm'[r] # adm[r]

\* nothing is written to the database or to storage in this step
NoWrite == db' = db /\ boxFolders' = boxFolders /\ boxFiles' = boxFiles

EngineStarted == \E i \in DOMAIN sub.log : sub.log[i] = Call("camunda", 0, TRUE)

\* C25: when the workflow-start call of a submission succeeded, the
\* submission ends with the claim stored under the engine's process key and
\* workflowStatus STARTED, whatever the database update did.
C25_StartedWhenEngineStarted ==
    (sub.pc = "done" /\ EngineStarted) =>
        /\ sub.id \in DOMAIN db
        /\ db[sub.id].processInstanceKey = RemoteKey
        /\ db[sub.id].workflowStatus = "STARTED"

\* C26: a stored claim with a placeholder key has workflowStatus DEMO, and a
\* stored claim with workflowStatus STARTED has the key the engine returned.
C26_KeyAgreesWithWorkflowStatus ==
    \A id \in DOMAIN db :
        /\ db[id].processInstanceKey = DemoKey => db[id].workflowStatus = "DEMO"
        /\ db[id].workflowStatus = "STARTED" => db[id].processInstanceKey = RemoteKey

(***************************************************************************)
(* Claims about the session routes (SpecSession, SpecPortal)                *)
(***************************************************************************)

\* a request of this route is answered in this step
RouteAnswered(route) == reply' # reply /\ reply'.route = route

\* C27: an admin login whose email is an entry of the admin table and whose
\* password is that entry's password is answered 200 and sets the admin
\* session; any other login is answered 401 and leaves the session as it was.
C27_AdminLoginNeedsTableEntry ==
    [][RouteAnswered("admin/login") =>
          IF /\ reply'.email \in DOMAIN adminUsers
             /\ reply'.password = adminUsers[reply'.email].password
          THEN reply'.resp = 200 /\ session'.adminUser = adminUsers[reply'.email].name
          ELSE reply'.resp = 401 /\ session' = session]_vars

C29_LogoutEndsOnlyItsLogin ==
    [][/\ RouteAnswered("logout") =>
             session'.user = NoUser /\ session'.adminUser = session.adminUser
       /\ RouteAnswered("admin/logout") =>
             session'.adminUser = NoUser /\ session'.user = session.user
       /\ RouteAnswered("user") =>
             ((reply'.resp = 401) <=> (session.user = NoUser))
       /\ RouteAnswered("admin/user") =>
             ((reply'.resp = 401) <=> (session.adminUser = NoUser))]_vars

(***************************************************************************)
(* Claims about getCamundaAccessToken (SpecToken)                           *)
(***************************************************************************)

\* request q calls getCamundaAccessToken in this step
TokenAsked(q) == tk[q].pc \in {"idle", "done"} /\ tk'[q].pc \in {"fetch", "call"}

\* the cache is left as it was in this step
CacheKept ==
    /\ camundaAccessToken' = camundaAccessToken
    /\ camundaTokenExpiry' = camundaTokenExpiry

\* what every reading of C30 shares: a call returns the cached token without
\* a fetch exactly when there is one and the time is before the stored expiry;
\* a token answer with expires_in is stored with the expiry 60 s before
\* answer time + expires_in; without OAuth configuration the call returns
\* null and nothing is ever fetched.
TokenCacheRules(q) ==
    /\ TokenAsked(q) =>
          /\ CacheKept
          /\ IF camundaAccessToken > 0 /\ camundaTokenExpiry > 0
                                       /\ now < camundaTokenExpiry
             THEN tk'[q].pc = "call" /\ tk'[q].token = camundaAccessToken
             ELSE IF oauthConfigured
             THEN tk'[q].pc = "fetch"
             ELSE tk'[q].pc = "call" /\ tk'[q].token = NullValue
    /\ (FetchEnds(q) /\ tk'[q].token > 0) =>
          /\ Len(tokenResponses') = Len(tokenResponses) + 1
          /\ camundaAccessToken' = tk'[q].token
          /\ camundaTokenExpiry' =
                now + tokenResponses'[Len(tokenResponses')].expires_in * 1000 - 60000
    /\ ~oauthConfigured => tk'[q].pc # "fetch" /\ tokenResponses' = <<>>

\* C30 (as stated): the shared rules, and a fetch that does not yield a token
\* returns null and leaves the cached token and expiry unchanged.
C30_FailedFetchKeepsCache ==
    [][\A q \in EngineRequests :
          /\ TokenCacheRules(q)
          /\ (FetchEnds(q) /\ ~(tk'[q].token > 0)) =>
                tk'[q].token = NullValue /\ CacheKept]_vars

\* C30 (amended): the shared rules; a fetch that throws returns null and
\* leaves the cached token and expiry unchanged; a fetch that is answered
\* without an access_token returns undefined and overwrites the cache with an
\* undefined token and a NaN expiry.
C30_ThrownFetchKeepsCache ==
    [][\A q \in EngineRequests :
          /\ TokenCacheRules(q)
          /\ (FetchEnds(q) /\ tokenResponses' = tokenResponses) =>
                tk'[q].token = NullValue /\ CacheKept
          /\ (FetchEnds(q) /\ tokenResponses' # tokenResponses /\ ~(tk'[q].token > 0)) =>
                /\ tk'[q].token = UndefinedValue
                /\ camundaAccessToken' = UndefinedValue
                /\ camundaTokenExpiry' = NaN]_vars

\* a minute after one request fetched a token that lasts three minutes, the
\* other request went on with the cached token and no second fetch was made
C30_Witness ==
    /\ Len(tokenResponses) = 1
    /\ tokenResponses[1].expires_in = 180
    /\ now > tokenResponses[1].at /\ now < camundaTokenExpiry
    /\ tk["q1"].pc = "done" /\ tk["q2"].pc = "call"
    /\ tk["q2"].token = camundaAccessToken /\ camundaAccessToken > 0

====
